---- MODULE Spec2Model ----
(***************************************************************************)
(* A model of the Mython interpreter (bconskri/cpp-mython): the lexer      *)
(* (lexer.cpp), the runtime object model (runtime.cpp) and the AST         *)
(* evaluator (statement.cpp).                                              *)
(*                                                                         *)
(* Text is a sequence of one-character strings.  Three specifications      *)
(* share the variables: SpecLexer drives Lexer::NextToken over bounded     *)
(* inputs, SpecRuntime applies the runtime's pure functions to bounded      *)
(* class chains and values, Spec executes top-level statements against a   *)
(* program's class table.                                                  *)
(***************************************************************************)
EXTENDS Integers, Sequences, FiniteSets, TLC

VARIABLES
    \* ---- lexer (parse::Lexer) ----
    lexer,           \* [in_, indent_, new_line_]: the Lexer's fields
    current_token_,  \* Lexer::current_token_
    tokens,          \* history: every token returned by NextToken so far
    lexstatus,       \* "new" (before the constructor), "ok", "error" (LexerError thrown)
    \* ---- runtime / evaluator ----
    classes,         \* the class table built by the parser (immutable)
    closure,         \* the top-level closure
    heap,            \* the ClassInstances created so far (index = identity)
    out,             \* the characters written to the context's output stream
    moved,           \* the classes whose ClassDefinition node has given its cls_ away
    status,          \* "running", "error" (runtime_error reached the top), "crashed"
    steps,           \* number of top-level operations performed
    last             \* what the last operation did (its result and event log)

lexvars == <<lexer, current_token_, tokens, lexstatus>>
runvars == <<classes, closure, heap, out, moved, status, steps, last>>
vars == <<lexer, current_token_, tokens, lexstatus,
          classes, closure, heap, out, moved, status, steps, last>>

(***************************************************************************)
(* Bounds of the model.                                                    *)
(***************************************************************************)
MaxInputLen == 7    \* longest input over the core alphabet (space, newline, a)
MaxWideLen == 4     \* longest input over the whole alphabet
MaxTailLen == 4     \* longest continuation of the nested block
MaxExprLen == 3     \* longest expression of names and punctuation
MaxTokens == 10     \* NextToken calls observed per input
MaxSteps == 3       \* top-level operations per run of the evaluator
MaxDepth == 4       \* nested method invocations before the host stack is taken as exhausted
MaxOps == 2         \* top-level statements per run of the operators' programs

(***************************************************************************)
(* Generic helpers.                                                        *)
(***************************************************************************)
SeqsUpTo(S, n) == UNION {[1..k -> S] : k \in 0..n}

Last(s) == s[Len(s)]

\* The number of elements of s that lie in the set S.
CountIn(s, S) == Cardinality({i \in 1..Len(s) : s[i] \in S})

(***************************************************************************)
(*                               LEXER                                     *)
(***************************************************************************)

\* The value in_.get() returns at end of input (char(-1)).
EOFC == "EOF"

CoreChars == {" ", "\n", "a"}
AllChars == {" ", "\n", "a", "#", "1", "=", "+", "'", "\\"}

\* std::istream over a read-only buffer: the characters, the number already
\* consumed, eofbit, and failbit|badbit.
NewStream(text) == [buf |-> text, pos |-> 0, eofbit |-> FALSE, failbit |-> FALSE]

Good(s) == ~s.eofbit /\ ~s.failbit

\* in_.get(): the next character, or EOF with eofbit|failbit set; a stream
\* that is not good() fails the sentry and returns EOF.
Get(s) ==
    IF ~Good(s) THEN [s |-> [s EXCEPT !.failbit = TRUE], c |-> EOFC]
    ELSE IF s.pos < Len(s.buf)
         THEN [s |-> [s EXCEPT !.pos = s.pos + 1], c |-> s.buf[s.pos + 1]]
         ELSE [s |-> [s EXCEPT !.eofbit = TRUE, !.failbit = TRUE], c |-> EOFC]

\* in_.putback(c): clears eofbit; fails when the stream has failed before;
\* steps back when c is the character just read, else fails (badbit).
Putback(s, c) ==
    LET t == [s EXCEPT !.eofbit = FALSE]
    IN  IF t.failbit THEN t
        ELSE IF t.pos > 0 /\ t.buf[t.pos] = c
             THEN [t EXCEPT !.pos = t.pos - 1]
             ELSE [t EXCEPT !.failbit = TRUE]

\* std::getline(in_, comment, '\n'): consumes through the next newline, or to
\* the end of input (eofbit, and failbit when nothing was extracted).
Getline(s) ==
    IF ~Good(s) THEN [s EXCEPT !.failbit = TRUE]
    ELSE LET nl == {j \in (s.pos + 1)..Len(s.buf) : s.buf[j] = "\n"}
         IN  IF nl # {}
             THEN [s EXCEPT !.pos = CHOOSE j \in nl : \A k \in nl : j <= k]
             ELSE [s EXCEPT !.pos = Len(s.buf), !.eofbit = TRUE,
                            !.failbit = (s.pos = Len(s.buf))]

Tok(t) == [type |-> t]
TokV(t, v) == [type |-> t, value |-> v]

\* Lexer::declared_words_ (lexer.h): the reserved words.
declared_words_ ==
    ( <<"c","l","a","s","s">> :> Tok("Class") ) @@
    ( <<"r","e","t","u","r","n">> :> Tok("Return") ) @@
    ( <<"i","f">> :> Tok("If") ) @@
    ( <<"e","l","s","e">> :> Tok("Else") ) @@
    ( <<"d","e","f">> :> Tok("Def") ) @@
    ( <<"p","r","i","n","t">> :> Tok("Print") ) @@
    ( <<"a","n","d">> :> Tok("And") ) @@
    ( <<"o","r">> :> Tok("Or") ) @@
    ( <<"n","o","t">> :> Tok("Not") ) @@
    ( <<"N","o","n","e">> :> Tok("None") ) @@
    ( <<"T","r","u","e">> :> Tok("True") ) @@
    ( <<"F","a","l","s","e">> :> Tok("False") )

\* Lexer::comp_operators_ (lexer.h): the two-character comparisons.
comp_operators_ ==
    ( <<"=","=">> :> Tok("Eq") ) @@ ( <<"!","=">> :> Tok("NotEq") ) @@
    ( <<"<","=">> :> Tok("LessOrEq") ) @@ ( <<">","=">> :> Tok("GreaterOrEq") )

Digits == <<"0","1","2","3","4","5","6","7","8","9">>
IsDigit(c) == \E i \in 1..10 : Digits[i] = c
DigitVal(c) == (CHOOSE i \in 1..10 : Digits[i] = c) - 1

\* std::stoi on a run of decimal digits.
RECURSIVE Stoi(_)
Stoi(num) == IF num = <<>> THEN 0
             ELSE 10 * Stoi(SubSeq(num, 1, Len(num) - 1)) + DigitVal(Last(num))

\* Lexer::SkipCurIndent: the loop from iteration i on.  Result: the lexer,
\* the number of indents skipped, and whether LexerError was thrown.
RECURSIVE SkipCurIndentFrom(_, _)
SkipCurIndentFrom(L, i) ==
    IF i >= L.indent_ THEN [lx |-> L, n |-> i, err |-> FALSE]
    ELSE LET g1 == Get(L.in_)
         IN  IF g1.c = EOFC
             THEN [lx |-> [L EXCEPT !.in_ = g1.s], n |-> i, err |-> FALSE]
             ELSE IF g1.c = "\n"
             THEN SkipCurIndentFrom([L EXCEPT !.in_ = g1.s], 0)
             ELSE LET g2 == Get(g1.s)
                  IN  IF g1.c = " " /\ g2.c # " "
                      THEN [lx |-> [L EXCEPT !.in_ = g2.s], n |-> i, err |-> TRUE]
                      ELSE IF g1.c # " "
                      THEN [lx |-> [L EXCEPT !.in_ = Putback(Putback(g2.s, g2.c), g1.c)],
                            n |-> i, err |-> FALSE]
                      ELSE SkipCurIndentFrom([L EXCEPT !.in_ = g2.s], i + 1)

SkipCurIndent(L) == SkipCurIndentFrom(L, 0)

\* Lexer::ReadNumber: the loop, num being the digits read so far.
RECURSIVE ReadNumberFrom(_, _)
ReadNumberFrom(s, num) ==
    LET g == Get(s)
    IN  IF IsDigit(g.c) /\ g.c # EOFC
        THEN ReadNumberFrom(g.s, Append(num, g.c))
        ELSE [s |-> Putback(g.s, g.c), tok |-> TokV("Number", Stoi(num))]

ReadNumber(L, c) ==
    LET r == ReadNumberFrom(L.in_, <<c>>)
    IN  [lx |-> [L EXCEPT !.in_ = r.s], tok |-> r.tok, err |-> FALSE]

\* Lexer::ReadString: the loop, cn being the character just read.
RECURSIVE ReadStringFrom(_, _, _, _)
ReadStringFrom(s, c, cn, str) ==
    IF cn # c /\ cn # EOFC
    THEN IF cn = "\\"
         THEN LET e == Get(s)
                  ch == IF e.c = "t" THEN "\t" ELSE IF e.c = "n" THEN "\n" ELSE e.c
                  g == Get(e.s)
              IN  ReadStringFrom(g.s, c, g.c, Append(str, ch))
         ELSE LET g == Get(s)
              IN  ReadStringFrom(g.s, c, g.c, Append(str, cn))
    ELSE [s |-> s, cn |-> cn, str |-> str]

ReadString(L, c) ==
    LET g == Get(L.in_)
        r == ReadStringFrom(g.s, c, g.c, <<>>)
        L1 == [L EXCEPT !.in_ = r.s]
    IN  IF r.cn # c THEN [lx |-> L1, tok |-> Tok("None"), err |-> TRUE]
        ELSE IF Len(r.str) > 0
             THEN [lx |-> L1, tok |-> TokV("String", r.str), err |-> FALSE]
             ELSE [lx |-> L1, tok |-> Tok("None"), err |-> FALSE]

\* The characters that end an identifier in Lexer::ReadId.
IdStop == {"=", ".", ",", "(", "+", "<", ")", "!", ">", " ", ":", "#", "\n", EOFC}

RECURSIVE ReadIdFrom(_, _)
ReadIdFrom(s, str) ==
    LET g == Get(s)
    IN  IF g.c \notin IdStop
        THEN ReadIdFrom(g.s, Append(str, g.c))
        ELSE [s |-> Putback(g.s, g.c), str |-> str]

ReadId(L, c) ==
    LET r == ReadIdFrom(L.in_, <<c>>)
        L1 == [L EXCEPT !.in_ = r.s, !.new_line_ = FALSE]
    IN  IF r.str \in DOMAIN declared_words_
        THEN [lx |-> L1, tok |-> declared_words_[r.str], err |-> FALSE]
        ELSE [lx |-> L1, tok |-> TokV("Id", r.str), err |-> FALSE]

\* while (c == ' ') c = in_.get();
RECURSIVE SkipSpaces(_, _)
SkipSpaces(s, c) == IF c = " " THEN LET g == Get(s) IN SkipSpaces(g.s, g.c)
                    ELSE [s |-> s, c |-> c]

CharTokens == {"=", "+", "-", "*", "/", ">", "<", ".", ",", "(", ")", ":"}

\* Lexer::ReadToken, from "char c = in_.get()" on, c being the character read
\* after inner spaces were skipped.
ReadTokenAt(L, c) ==
    LET isCmp == c \in {"=", "!", "<", ">"}
        g == IF isCmp THEN Get(L.in_) ELSE [s |-> L.in_, c |-> c]
    IN  IF IsDigit(c) THEN ReadNumber([L EXCEPT !.new_line_ = FALSE], c)
        ELSE IF isCmp /\ g.c = "="
        THEN [lx |-> [L EXCEPT !.in_ = g.s, !.new_line_ = FALSE],
              tok |-> comp_operators_[<<c, "=">>], err |-> FALSE]
        ELSE LET L1 == IF isCmp THEN [L EXCEPT !.in_ = Putback(g.s, g.c)] ELSE L
             IN  IF c \in CharTokens
                 THEN [lx |-> [L1 EXCEPT !.new_line_ = FALSE],
                       tok |-> TokV("Char", c), err |-> FALSE]
                 ELSE IF c \in {"'", "\""}
                 THEN ReadString([L1 EXCEPT !.new_line_ = FALSE], c)
                 ELSE ReadId(L1, c)

\* for (i < indent_skipped) { in_.putback(' '); in_.putback(' '); }
RECURSIVE PutSpaces(_, _)
PutSpaces(s, k) == IF k = 0 THEN s
                   ELSE PutSpaces(Putback(Putback(s, " "), " "), k - 1)

RECURSIVE ReadToken(_)
ReadToken(L0) ==
    LET sk == IF L0.new_line_ /\ L0.indent_ > 0
              THEN SkipCurIndent(L0)
              ELSE [lx |-> L0, n |-> L0.indent_, err |-> FALSE]
    IN
    IF sk.err THEN [lx |-> sk.lx, tok |-> Tok("None"), err |-> TRUE]
    ELSE IF sk.n < L0.indent_
    THEN \* Dedent found: the indents skipped are put back
         [lx |-> [sk.lx EXCEPT !.indent_ = L0.indent_ - 1,
                               !.in_ = PutSpaces(sk.lx.in_, sk.n)],
          tok |-> Tok("Dedent"), err |-> FALSE]
    ELSE
    LET L == sk.lx
        g == Get(L.in_)
        c == g.c
        L1 == [L EXCEPT !.in_ = g.s]
    IN
    IF c = EOFC \/ g.s.eofbit
    THEN IF ~L.new_line_
         THEN [lx |-> [L1 EXCEPT !.new_line_ = TRUE], tok |-> Tok("Newline"), err |-> FALSE]
         ELSE [lx |-> L1, tok |-> Tok("Eof"), err |-> FALSE]
    ELSE IF c = "\n"
    THEN IF ~L.new_line_
         THEN [lx |-> [L1 EXCEPT !.new_line_ = TRUE], tok |-> Tok("Newline"), err |-> FALSE]
         ELSE ReadToken(L1)       \* return NextToken();
    ELSE IF c = " " /\ L.new_line_
    THEN LET g2 == Get(L1.in_)
         IN  IF g2.c = " "
             THEN [lx |-> [L1 EXCEPT !.in_ = g2.s, !.indent_ = L.indent_ + 1,
                                     !.new_line_ = FALSE],
                   tok |-> Tok("Indent"), err |-> FALSE]
             ELSE [lx |-> [L1 EXCEPT !.in_ = g2.s], tok |-> Tok("None"), err |-> TRUE]
    ELSE
    LET sp == SkipSpaces(L1.in_, c)
        L2 == [L1 EXCEPT !.in_ = sp.s]
    IN
    IF sp.c = "#"
    THEN ReadToken([L2 EXCEPT !.in_ = Putback(Getline(L2.in_), "\n")])
    ELSE ReadTokenAt(L2, sp.c)

\* Lexer::Lexer, before its body's call of NextToken.
NewLexer(text) == [in_ |-> NewStream(text), indent_ |-> 0, new_line_ |-> TRUE]

\* A block inside a block (two lines, the second one deeper), continued by
\* every text of up to MaxTailLen characters.
NestedBlock == <<" ", " ", "a", "\n", " ", " ", " ", " ", "a", "\n">>

\* Expressions: a name, a digit, an underscore and the punctuation.
ExprChars == {"a", "1", "_", "+", "-", "*", "/", ".", ",", "(", ")", ":"}

Inputs == SeqsUpTo(CoreChars, MaxInputLen) \cup SeqsUpTo(AllChars, MaxWideLen)
              \cup {NestedBlock \o t : t \in SeqsUpTo(CoreChars, MaxTailLen)}
              \cup SeqsUpTo(ExprChars, MaxExprLen)

LexerIdle ==
    /\ lexer = NewLexer(<<>>)
    /\ current_token_ = Tok("None")
    /\ tokens = <<>>
    /\ lexstatus = "off"

RunIdle ==
    /\ classes = <<>>
    /\ closure = <<>>
    /\ heap = <<>>
    /\ out = <<>>
    /\ moved = {}
    /\ status = "off"
    /\ steps = 0
    /\ last = [op |-> "none"]

InitLexer ==
    /\ \E text \in Inputs : lexer = NewLexer(text)
    /\ current_token_ = Tok("None")
    /\ tokens = <<>>
    /\ lexstatus = "new"
    /\ RunIdle

\* Lexer::NextToken: current_token_ = ReadToken(); return CurrentToken();
\* A LexerError leaves the lexer unusable.
NextTokenStep ==
    LET r == ReadToken(lexer)
    IN  /\ lexer' = r.lx
        /\ IF r.err
           THEN /\ lexstatus' = "error"
                /\ UNCHANGED <<current_token_, tokens>>
           ELSE /\ lexstatus' = "ok"
                /\ current_token_' = r.tok
                /\ tokens' = Append(tokens, r.tok)
        /\ UNCHANGED runvars

\* Lexer::Lexer(std::istream&): reads the first token.
LexerCtor ==
    /\ lexstatus = "new"
    /\ NextTokenStep

NextToken ==
    /\ lexstatus = "ok"
    /\ Len(tokens) < MaxTokens
    /\ NextTokenStep

NextLexer == LexerCtor \/ NextToken

SpecLexer == InitLexer /\ [][NextLexer]_vars

(***************************************************************************)
(* Lexer claims.                                                           *)
(***************************************************************************)
TypesOf(ts) == [i \in 1..Len(ts) |-> ts[i].type]
NIndent(ts) == CountIn(TypesOf(ts), {"Indent"})
NDedent(ts) == CountIn(TypesOf(ts), {"Dedent"})
EofAt(i) == i \in 1..Len(tokens) /\ tokens[i].type = "Eof"
FirstEofAt(i) == EofAt(i) /\ \A j \in 1..(i - 1) : ~EofAt(j)

\* C2: for an input that lexes without error the tokens returned by NextToken
\* are balanced: in every prefix there are at most as many Dedents as Indents,
\* and when the first Eof is returned there are exactly as many.
C2_IndentDedentBalanced ==
    lexstatus = "ok" =>
        /\ \A k \in 0..Len(tokens) :
               NDedent(SubSeq(tokens, 1, k)) <= NIndent(SubSeq(tokens, 1, k))
        /\ \A i \in 1..Len(tokens) : FirstEofAt(i) =>
               NDedent(SubSeq(tokens, 1, i)) = NIndent(SubSeq(tokens, 1, i))

\* C3 (its third sentence): once NextToken has returned Eof, every later call
\* returns Eof again.
C3_EofIsFinal ==
    lexstatus = "ok" =>
        \A i \in 1..Len(tokens) : \A j \in i..Len(tokens) : EofAt(i) => EofAt(j)

\* The characters in_.get() would still deliver, in order.
Rest(s) == IF Good(s) THEN SubSeq(s.buf, s.pos + 1, Len(s.buf)) ELSE <<>>

RECURSIVE LeadingSpaces(_)
LeadingSpaces(r) == IF r # <<>> /\ r[1] = " " THEN 1 + LeadingSpaces(Tail(r)) ELSE 0

\* The lexer stands at the beginning of a line that is not blank, is not a
\* comment and is indented by whole indents.
AtLine(L) ==
    LET r == Rest(L.in_)
        k == LeadingSpaces(r)
    IN  /\ L.new_line_
        /\ L.in_.pos = 0 \/ L.in_.buf[L.in_.pos] = "\n"
        /\ k % 2 = 0
        /\ k < Len(r)
        /\ r[k + 1] \notin {"\n", "#"}

LineDepth(L) == LeadingSpaces(Rest(L.in_)) \div 2
LineFirstChar(L) == Rest(L.in_)[LeadingSpaces(Rest(L.in_)) + 1]

\* tok is a token that begins with the character c.
BeginsWith(tok, c) ==
    IF IsDigit(c) THEN tok.type = "Number"
    ELSE IF c \in {"=", "!", "<", ">"}
    THEN tok = TokV("Char", c) \/ tok = comp_operators_[<<c, "=">>]
    ELSE IF c \in CharTokens THEN tok = TokV("Char", c)
    ELSE IF c \in {"'", "\""} THEN tok.type \in {"String", "None"}
    ELSE /\ tok.type = "Id" \/ tok \in {declared_words_[w] : w \in DOMAIN declared_words_}
         /\ tok.type = "Id" => tok.value[1] = c

\* C16: when a non-blank line begins at a depth d below the indent level n,
\* a NextToken call returns Dedent, lowers the indent level by exactly 1 and
\* leaves every character of the line in the stream (so the next n - d calls
\* return one Dedent each); once the level equals d, the call returns the
\* first token of the line.  This holds also for a last line without newline.
C16_DedentKeepsTheLine ==
    [][(lexstatus = "ok" /\ AtLine(lexer) /\ lexer.indent_ > 0) =>
          IF LineDepth(lexer) < lexer.indent_
          THEN /\ lexstatus' = "ok"
               /\ current_token_' = Tok("Dedent")
               /\ lexer'.indent_ = lexer.indent_ - 1
               /\ lexer'.new_line_
               /\ Rest(lexer'.in_) = Rest(lexer.in_)
          ELSE (LineDepth(lexer) = lexer.indent_ /\ lexstatus' = "ok")
                  => BeginsWith(current_token_', LineFirstChar(lexer))
      ]_lexvars

\* Two Dedents in a row brought the lexer from level 2 to the level 0 of a
\* last line without newline, whose first token was returned next.
C16_Witness ==
    /\ lexstatus = "ok"
    /\ Len(tokens) >= 3
    /\ tokens[Len(tokens) - 2] = Tok("Dedent")
    /\ tokens[Len(tokens) - 1] = Tok("Dedent")
    /\ tokens[Len(tokens)].type = "Id"
    /\ Last(lexer.in_.buf) # "\n"

Letters ==
    {"a", "b", "c", "d", "e", "f", "g", "h", "i", "j", "k", "l", "m", "n", "o", "p", "q",
     "r", "s", "t", "u", "v", "w", "x", "y", "z",
     "A", "B", "C", "D", "E", "F", "G", "H", "I", "J", "K", "L", "M", "N", "O", "P", "Q",
     "R", "S", "T", "U", "V", "W", "X", "Y", "Z"}

IsIdentifier(str) ==
    /\ Len(str) > 0
    /\ \A i \in 1..Len(str) : str[i] \in Letters \cup {"_"} \/ IsDigit(str[i])
    /\ ~IsDigit(str[1])

Punctuation == {"+", "-", "*", "/", ".", ",", "(", ")", ":"}

\* C21: the text of every Id token is made of letters, digits and
\* underscores and does not begin with a digit; and of an input without
\* string literals and comments, lexed to its end, every punctuation character
\* + - * / . , ( ) : has been returned as a Char token of its own, also where
\* it follows an identifier directly.
C21_IdsAndPunctuation ==
    lexstatus = "ok" =>
        /\ \A i \in 1..Len(tokens) :
               tokens[i].type = "Id" => IsIdentifier(tokens[i].value)
        /\ (/\ tokens # <<>>
            /\ Last(tokens).type = "Eof"
            /\ \A j \in 1..Len(lexer.in_.buf) : lexer.in_.buf[j] \notin {"'", "\"", "#"})
           => \A c \in Punctuation :
                 Cardinality({i \in 1..Len(tokens) :
                                 tokens[i].type = "Char" /\ tokens[i].value = c})
                   = Cardinality({j \in 1..Len(lexer.in_.buf) : lexer.in_.buf[j] = c})

\* a+a has been lexed to its end: Id, Char +, Id, Newline, Eof.
C21_Witness ==
    /\ lexstatus = "ok"
    /\ lexer.in_.buf = <<"a", "+", "a">>
    /\ tokens = <<TokV("Id", <<"a">>), TokV("Char", "+"), TokV("Id", <<"a">>),
                  Tok("Newline"), Tok("Eof")>>

\* The lexer stands at the beginning of a line that is not blank, is not a
\* comment and begins with an odd number of spaces.
AtOddLine(L) ==
    LET r == Rest(L.in_)
        k == LeadingSpaces(r)
    IN  /\ L.new_line_
        /\ L.in_.pos = 0 \/ L.in_.buf[L.in_.pos] = "\n"
        /\ k % 2 = 1
        /\ k < Len(r)
        /\ r[k + 1] \notin {"\n", "#"}

\* C22: at a non-blank line whose leading spaces are odd in number the lexer
\* raises LexerError and returns no token of that line, whatever the indent
\* level and the odd count.
C22_OddIndentRaises ==
    [][(lexstatus \in {"new", "ok"} /\ AtOddLine(lexer))
          => (lexstatus' = "error" /\ tokens' = tokens)]_lexvars

\* Inside a block of level 1 a line of one space and a name has raised.
C22_Witness ==
    /\ lexstatus = "error"
    /\ lexer.in_.buf = <<" ", " ", "a", "\n", " ", "a">>
    /\ lexer.indent_ = 1
    /\ tokens = <<Tok("Indent"), TokV("Id", <<"a">>), Tok("Newline")>>

(***************************************************************************)
(*                          RUNTIME OBJECT MODEL                           *)
(***************************************************************************)

\* ObjectHolder: empty (None) or one object of a concrete kind.  A
\* ClassInstance is held by reference (its index in the heap), a Class by its
\* index in the class table.
None == [kind |-> "None"]
Number(n) == [kind |-> "Number", v |-> n]
String(s) == [kind |-> "String", v |-> s]
Bool(b) == [kind |-> "Bool", v |-> b]
ClassObj(c) == [kind |-> "Class", v |-> c]
Instance(i) == [kind |-> "ClassInstance", v |-> i]

\* runtime::Method and runtime::Class (parent = 0 is nullptr).
Method(name, formal_params, body) ==
    [name |-> name, formal_params |-> formal_params, body |-> body]
Class(name, methods, parent) ==
    [name |-> name, methods |-> methods, parent |-> parent]

\* A variant of GetMethod that searches the ancestors before the class itself.
RECURSIVE GetMethodWrong(_, _, _)
GetMethodWrong(cs, c, name) ==
    IF c = 0 THEN [found |-> FALSE]
    ELSE LET up == GetMethodWrong(cs, cs[c].parent, name)
             ms == cs[c].methods
             hits == {k \in 1..Len(ms) : ms[k].name = name}
         IN  IF up.found THEN up
             ELSE IF hits # {}
             THEN LET k == CHOOSE k \in hits : \A j \in hits : k <= j
                  IN  [found |-> TRUE, cls |-> c, idx |-> k, m |-> ms[k]]
             ELSE [found |-> FALSE]

\* Class::GetMethod on the class table cs: the first method of that name in
\* the first class of the chain c, parent of c, ... that has one; found = FALSE
\* is nullptr.  cls and idx tell which method object the pointer points to.
RECURSIVE GetMethod(_, _, _)
GetMethod(cs, c, name) ==
    IF c = 0 THEN [found |-> FALSE]
    ELSE LET ms == cs[c].methods
             hits == {k \in 1..Len(ms) : ms[k].name = name}
         IN  IF hits # {}
             THEN LET k == CHOOSE k \in hits : \A j \in hits : k <= j
                  IN  [found |-> TRUE, cls |-> c, idx |-> k, m |-> ms[k]]
             ELSE GetMethod(cs, cs[c].parent, name)

\* A variant of HasMethod that accepts a method of the requested parameter
\* count defined anywhere on the chain, not only the one resolution finds.
RECURSIVE HasMethodOnChain(_, _, _, _)
HasMethodOnChain(cs, c, name, argument_count) ==
    IF c = 0 THEN FALSE
    ELSE \/ \E k \in 1..Len(cs[c].methods) :
              /\ cs[c].methods[k].name = name
              /\ Len(cs[c].methods[k].formal_params) = argument_count
         \/ HasMethodOnChain(cs, cs[c].parent, name, argument_count)

\* ClassInstance::HasMethod for an instance of class c.
HasMethod(cs, c, name, argument_count) ==
    LET method == GetMethod(cs, c, name)
    IN  method.found /\ Len(method.m.formal_params) = argument_count

\* A variant of IsTrue for which an instance counts as true.
IsTrueOfInstances(object) ==
    IF object.kind = "Bool" THEN object.v = TRUE
    ELSE IF object.kind = "String" THEN Len(object.v) > 0
    ELSE IF object.kind = "Number" THEN ~(object.v = 0)
    ELSE object.kind = "ClassInstance"

\* runtime::IsTrue
IsTrue(object) ==
    IF object.kind = "Bool" THEN object.v = TRUE
    ELSE IF object.kind = "String" THEN Len(object.v) > 0
    ELSE IF object.kind = "Number" THEN ~(object.v = 0)
    ELSE IF object.kind \in {"Class", "ClassInstance"} THEN FALSE
    ELSE IF object.kind = "None" THEN FALSE
    ELSE TRUE

\* operator<< for an int: the decimal digits, with a minus sign when negative.
RECURSIVE ToDecimal(_)
ToDecimal(n) ==
    IF n < 0 THEN <<"-">> \o ToDecimal(0 - n)
    ELSE IF n < 10 THEN <<Digits[n + 1]>>
    ELSE ToDecimal(n \div 10) \o <<Digits[(n % 10) + 1]>>

\* The values of an int (std::stoi makes the Number a token holds).
IntMax == 2147483647
IntMin == (0 - IntMax) - 1

\* C-style division of ints: the quotient truncated toward zero (\div rounds
\* down).  IntMin / -1 has no int for a result and is not asked of it.
TruncDiv(a, b) ==
    LET q == a \div b
    IN  IF q * b # a /\ ((a < 0) # (b < 0)) THEN q + 1 ELSE q

(***************************************************************************)
(*                         EVALUATOR (AST NODES)                           *)
(***************************************************************************)

\* The nodes of namespace ast.  NoStmt is a null unique_ptr<Statement>.
NoStmt == [t |-> "nullptr"]
Const(v) == [t |-> "Const", v |-> v]
Assignment(var, rv) == [t |-> "Assignment", var |-> var, rv |-> rv]
VariableValue(dotted_ids) == [t |-> "VariableValue", dotted_ids |-> dotted_ids]
PrintNode(args) == [t |-> "Print", args |-> args]
MethodCall(object, method, args) ==
    [t |-> "MethodCall", object |-> object, method |-> method, args |-> args]
Stringify(argument) == [t |-> "Stringify", argument |-> argument]
BinaryOp(t, lhs, rhs) == [t |-> t, lhs |-> lhs, rhs |-> rhs]
Compound(statements) == [t |-> "Compound", statements |-> statements]
Return(statement) == [t |-> "Return", statement |-> statement]
ClassDefinition(c) == [t |-> "ClassDefinition", cls |-> c]
FieldAssignment(object, field_name, rv) ==
    [t |-> "FieldAssignment", object |-> object, field_name |-> field_name, rv |-> rv]
IfElse(condition, if_body, else_body) ==
    [t |-> "IfElse", condition |-> condition, if_body |-> if_body, else_body |-> else_body]
Not(argument) == [t |-> "Not", argument |-> argument]
Comparison(cmp, lhs, rhs) == [t |-> "Comparison", cmp |-> cmp, lhs |-> lhs, rhs |-> rhs]
NewInstance(c, args) == [t |-> "NewInstance", cls |-> c, args |-> args]
MethodBody(body) == [t |-> "MethodBody", body |-> body]

ADD_METHOD == "__add__"
INIT_METHOD == "__init__"

(***************************************************************************)
(* The state an Execute call works on and hands back:                      *)
(*   closure, heap, out, moved  the program's state (closure: the frame's) *)
(*   ctx      "real" or "dummy": the Context whose stream Print writes to   *)
(*   sig      "ok" (returned val), "return" (a thrown ObjectHolder val),   *)
(*            "error" (runtime_error, val its what()), "crash" (the        *)
(*            process died)                                                *)
(*   frame, nframes, depth, log  bookkeeping: the invocation executing,    *)
(*            the invocations so far, the nesting, the events so far       *)
(*   orc, nd  what the build decides where the language leaves it open      *)
(*            (orc), and whether that was consulted (nd)                   *)
(***************************************************************************)
Oracles == [ub : {"crash", "skip"}, ord : {"lr", "rl"}, mv : BOOLEAN]
DefaultOracle == [ub |-> "crash", ord |-> "lr", mv |-> TRUE]

Ok(S, v) == [S EXCEPT !.sig = "ok", !.val = v]
RuntimeError(what) == [kind |-> "runtime_error", what |-> what]
Raise(S, what) == [S EXCEPT !.sig = "error", !.val = RuntimeError(what)]
Crash(S) == [S EXCEPT !.sig = "crash", !.val = None]
Log(S, ev) == [S EXCEPT !.log = Append(@, ev)]
Asked(S, what) == [S EXCEPT !.nd = @ \cup {what}]

\* closure[name]: std::map::operator[] inserts an empty holder for a new key.
Touch(cl, name) == IF name \in DOMAIN cl THEN cl ELSE (name :> None) @@ cl
Bind(cl, name, v) == (name :> v) @@ cl

\* A write to the stream of the current Context.
Write(S, text) ==
    LET S1 == Log(S, [e |-> "write", fr |-> S.frame, ctx |-> S.ctx, text |-> text])
    IN  IF S.ctx = "real" THEN [S1 EXCEPT !.out = @ \o text] ELSE S1

\* ValueStatement<T>::Execute (statement.h): a literal yields its value.
ExecConst(node, S) == Ok(S, node.v)

RECURSIVE Execute(_, _)
RECURSIVE ExecArgsFrom(_, _, _, _)
RECURSIVE ExecCompoundFrom(_, _, _)
RECURSIVE PrintLoop(_, _, _, _)
RECURSIVE PrintValue(_, _)
RECURSIVE DottedLoop(_, _, _, _, _)
RECURSIVE Call(_, _, _, _)
RECURSIVE Equal(_, _, _)
RECURSIVE Less(_, _, _)

\* for (arg : args_) actual_args.emplace_back(arg->Execute(closure, context));
\* the values end up in val.
ExecArgsFrom(args, k, acc, S) ==
    IF k > Len(args) THEN Ok(S, acc)
    ELSE LET r == Execute(args[k], S)
         IN  IF r.sig # "ok" THEN r
             ELSE ExecArgsFrom(args, k + 1, Append(acc, r.val),
                               Log(r, [e |-> "arg", fr |-> S.frame, k |-> k, val |-> r.val]))

ExecArgs(args, S) == ExecArgsFrom(args, 1, <<>>, S)

\* A variant of BindParams that binds no formal parameter.
BindParamsNone(formal_params, actual_args, i, cl) == cl

\* closure["self"] = Share(*this); closure[formal_params.at(i)] = actual_args.at(i)
RECURSIVE BindParams(_, _, _, _)
BindParams(formal_params, actual_args, i, cl) ==
    IF i > Len(actual_args) THEN cl
    ELSE BindParams(formal_params, actual_args, i + 1,
                    Bind(cl, formal_params[i], actual_args[i]))

\* ClassInstance::Call on the instance heap[i].
Call(i, method, actual_args, S) ==
    LET c == S.heap[i].cls
    IN  IF HasMethod(classes, c, method, Len(actual_args))
        THEN LET m == GetMethod(classes, c, method)
                 fr == S.nframes + 1
                 entry == BindParams(m.m.formal_params, actual_args, 1,
                                     Bind(<<>>, "self", Instance(i)))
                 S1 == Log([S EXCEPT !.closure = entry, !.frame = fr, !.nframes = fr,
                                     !.depth = S.depth + 1],
                           [e |-> "call", fr |-> fr, from |-> S.frame, recv |-> i,
                            cls |-> m.cls, method |-> method, args |-> actual_args,
                            entry |-> entry, caller |-> S.closure])
                 \* back in the caller, whose closure the callee never had
                 Leave(r) ==
                     [Log(r, [e |-> "exit", fr |-> fr, sig |-> r.sig, val |-> r.val,
                              final |-> r.closure])
                        EXCEPT !.closure = S.closure, !.frame = S.frame, !.depth = S.depth]
             IN  Leave(IF S.depth >= MaxDepth THEN Crash(S1) ELSE Execute(m.m.body, S1))
        ELSE Raise(S, "Class has no method: " \o method)

\* A variant of PrintValue that gives every object the same text.
PrintValueWrong(obj, S) == Ok(S, String(<<"?">>))

\* Object::Print of a non-empty holder: the text ends up in val (a String).
\* Nested __str__ calls run under the Context in S.ctx.
PrintValue(obj, S) ==
    IF obj.kind = "Number" THEN Ok(S, String(ToDecimal(obj.v)))
    ELSE IF obj.kind = "String" THEN Ok(S, String(obj.v))
    ELSE IF obj.kind = "Bool"
    THEN Ok(S, String(IF obj.v THEN <<"T","r","u","e">> ELSE <<"F","a","l","s","e">>))
    ELSE IF obj.kind = "Class"
    THEN Ok(S, String(<<"C","l","a","s","s"," ">> \o <<classes[obj.v].name>>))
    ELSE \* ClassInstance::Print
         IF HasMethod(classes, S.heap[obj.v].cls, "__str__", 0)
         THEN LET Then(r) ==
                      IF r.sig # "ok" THEN r
                      ELSE IF r.val = None     \* res->Print on an empty holder
                      THEN IF S.orc.ub = "crash" THEN Asked(Crash(r), "ub")
                           ELSE Asked(Ok(r, String(<<>>)), "ub")
                      ELSE PrintValue(r.val, r)
              IN  Then(Call(obj.v, "__str__", <<>>, S))
         ELSE Ok(S, String(<<"@", Digits[obj.v + 1]>>))      \* os << this

\* Print::Execute, from argument k on.
PrintLoop(args, k, ctx, S) ==
    IF k > Len(args) THEN Ok(Write(S, <<"\n">>), None)
    ELSE LET r == Execute(args[k], S)
         IN  IF r.sig # "ok" THEN r
             ELSE LET S1 == Log(r, [e |-> "printarg", fr |-> S.frame, k |-> k, val |-> r.val])
                      S2 == IF k > 1 THEN Write(S1, <<" ">>) ELSE S1
                  IN  IF r.val = None
                      THEN PrintLoop(args, k + 1, ctx, Write(S2, <<"N","o","n","e">>))
                      ELSE LET Then(p, back) ==
                                   IF p.sig # "ok" THEN back
                                   ELSE PrintLoop(args, k + 1, ctx, Write(back, p.val.v))
                               Printed(p) == Then(p, [p EXCEPT !.ctx = ctx])
                           IN  Printed(PrintValue(r.val, [S2 EXCEPT !.ctx = "dummy"]))

\* VariableValue::Execute for a dotted path, from segment i on.
DottedLoop(ids, i, object, val, S) ==
    IF i > Len(ids) THEN Ok(S, val)
    ELSE IF object.kind # "ClassInstance"     \* TryAs gives nullptr
    THEN IF S.orc.ub = "crash" THEN Asked(Crash(S), "ub")
         ELSE LET cl == Touch(S.closure, ids[i])
              IN  DottedLoop(ids, i + 1, cl[ids[i]], None,
                             Asked([S EXCEPT !.closure = cl], "ub"))
    ELSE LET fields == Touch(S.heap[object.v].fields, ids[i])
             cl == Touch(S.closure, ids[i])
         IN  DottedLoop(ids, i + 1, cl[ids[i]], fields[ids[i]],
                        [S EXCEPT !.heap[object.v].fields = fields, !.closure = cl])

ExecVariableValue(node, S) ==
    LET ids == node.dotted_ids
    IN  IF ids = <<>> THEN Raise(S, "No parameters for execute")
        ELSE IF Len(ids) > 1
        THEN LET cl == Touch(S.closure, ids[1])
             IN  DottedLoop(ids, 2, cl[ids[1]], None, [S EXCEPT !.closure = cl])
        ELSE IF ids[1] \notin DOMAIN S.closure THEN Raise(S, "Variable '" \o ids[1] \o " not found")
        ELSE Ok(S, S.closure[ids[1]])

\* A variant of Equal that answers False, instead of raising, when the two
\* operands are of different types.
EqualLoose(lhs, rhs, S) ==
    IF lhs.kind = rhs.kind /\ lhs.kind \in {"Bool", "String", "Number"}
    THEN Ok(S, Bool(lhs.v = rhs.v))
    ELSE IF lhs.kind = "ClassInstance" /\ rhs.kind = "ClassInstance"
    THEN Call(lhs.v, "__eq__", <<rhs>>, S)
    ELSE Ok(S, Bool(lhs.kind = "None" /\ rhs.kind = "None"))

\* runtime::Equal; the bool ends up in val as a Bool.
Equal(lhs, rhs, S) ==
    IF lhs.kind = "Bool" /\ rhs.kind = "Bool" THEN Ok(S, Bool(lhs.v = rhs.v))
    ELSE IF lhs.kind = "String" /\ rhs.kind = "String" THEN Ok(S, Bool(lhs.v = rhs.v))
    ELSE IF lhs.kind = "Number" /\ rhs.kind = "Number" THEN Ok(S, Bool(lhs.v = rhs.v))
    ELSE IF lhs.kind = "ClassInstance" /\ rhs.kind = "ClassInstance"
    THEN LET Then(r) ==
                 IF r.sig # "ok" THEN r
                 ELSE IF r.val.kind = "Bool" THEN Ok(r, Bool(r.val.v))
                 ELSE IF S.orc.ub = "crash" THEN Asked(Crash(r), "ub")
                 ELSE Asked(Ok(r, Bool(FALSE)), "ub")
         IN  Then(Call(lhs.v, "__eq__", <<rhs>>, S))
    ELSE IF lhs.kind = "None" /\ rhs.kind = "None" THEN Ok(S, Bool(TRUE))
    ELSE Raise(S, "different types compared")

\* The order of two strings: lexicographic on the characters' codes.
CharCode(c) ==
    LET order == <<"\t", "\n", " ", "'", "+", "-", "0", "1", "2", "3", "4", "5", "6",
                   "7", "8", "9", "=", "@", "A", "B", "C", "F", "N", "T", "a", "b",
                   "c", "e", "l", "n", "o", "r", "s", "u">>
    IN  CHOOSE i \in 1..Len(order) : order[i] = c

RECURSIVE StrLess(_, _)
StrLess(a, b) ==
    IF b = <<>> THEN FALSE
    ELSE IF a = <<>> THEN TRUE
    ELSE IF Head(a) = Head(b) THEN StrLess(Tail(a), Tail(b))
    ELSE CharCode(Head(a)) < CharCode(Head(b))

\* runtime::Less
Less(lhs, rhs, S) ==
    IF lhs.kind = "Bool" /\ rhs.kind = "Bool" THEN Ok(S, Bool(~lhs.v /\ rhs.v))
    ELSE IF lhs.kind = "String" /\ rhs.kind = "String" THEN Ok(S, Bool(StrLess(lhs.v, rhs.v)))
    ELSE IF lhs.kind = "Number" /\ rhs.kind = "Number" THEN Ok(S, Bool(lhs.v < rhs.v))
    ELSE IF lhs.kind = "ClassInstance" /\ rhs.kind = "ClassInstance"
    THEN LET Then(r) ==
                 IF r.sig # "ok" THEN r
                 ELSE IF r.val.kind = "Bool" THEN Ok(r, Bool(r.val.v))
                 ELSE IF S.orc.ub = "crash" THEN Asked(Crash(r), "ub")
                 ELSE Asked(Ok(r, Bool(FALSE)), "ub")
         IN  Then(Call(lhs.v, "__lt__", <<rhs>>, S))
    ELSE Raise(S, "different types compared")

Negated(r) == IF r.sig # "ok" THEN r ELSE Ok(r, Bool(~r.val.v))

\* runtime::NotEqual
NotEqual(lhs, rhs, S) == Negated(Equal(lhs, rhs, S))

\* A variant of Greater that is the negation of Less alone.
GreaterNotLess(lhs, rhs, S) == Negated(Less(lhs, rhs, S))

\* runtime::Greater: !(Less(lhs, rhs) || Equal(lhs, rhs))
Greater(lhs, rhs, S) ==
    LET Then(l) ==
            IF l.sig # "ok" THEN l
            ELSE IF l.val.v THEN Ok(l, Bool(FALSE))
            ELSE Negated(Equal(lhs, rhs, l))
    IN  Then(Less(lhs, rhs, S))

\* runtime::LessOrEqual
LessOrEqual(lhs, rhs, S) == Negated(Greater(lhs, rhs, S))

\* runtime::GreaterOrEqual
GreaterOrEqual(lhs, rhs, S) == Negated(Less(lhs, rhs, S))

\* The Comparator a Comparison node holds.
Compare(cmp, lhs, rhs, S) ==
    CASE cmp = "Equal" -> Equal(lhs, rhs, S)
      [] cmp = "NotEqual" -> NotEqual(lhs, rhs, S)
      [] cmp = "Less" -> Less(lhs, rhs, S)
      [] cmp = "Greater" -> Greater(lhs, rhs, S)
      [] cmp = "LessOrEqual" -> LessOrEqual(lhs, rhs, S)
      [] cmp = "GreaterOrEqual" -> GreaterOrEqual(lhs, rhs, S)

\* Evaluates lhs_ then rhs_; the values end up in val as <<lhs, rhs>>.
ExecBoth(node, S) ==
    LET l == Execute(node.lhs, S)
    IN  IF l.sig # "ok" THEN l
        ELSE LET r == Execute(node.rhs,
                              Log(l, [e |-> "operand", fr |-> S.frame, side |-> "lhs",
                                      val |-> l.val]))
             IN  IF r.sig # "ok" THEN r
                 ELSE Ok(Log(r, [e |-> "operand", fr |-> S.frame, side |-> "rhs",
                                 val |-> r.val]),
                         <<l.val, r.val>>)

\* Add::Execute
ExecAdd(node, S) ==
    LET b == ExecBoth(node, S)
        lhs == b.val[1]
        rhs == b.val[2]
    IN  IF b.sig # "ok" THEN b
        ELSE IF lhs.kind = "String" /\ rhs.kind = "String" THEN Ok(b, String(lhs.v \o rhs.v))
        ELSE IF lhs.kind = "Number" /\ rhs.kind = "Number" THEN Ok(b, Number(lhs.v + rhs.v))
        ELSE IF lhs.kind = "ClassInstance" THEN Call(lhs.v, ADD_METHOD, <<rhs>>, b)
        ELSE Raise(b, "Can't Add different types lhs and rhs")

\* Sub::Execute, Mult::Execute
ExecSubMult(node, S) ==
    LET b == ExecBoth(node, S)
        lhs == b.val[1]
        rhs == b.val[2]
    IN  IF b.sig # "ok" THEN b
        ELSE IF lhs.kind = "Number" /\ rhs.kind = "Number"
        THEN Ok(b, Number(IF node.t = "Sub" THEN lhs.v - rhs.v ELSE lhs.v * rhs.v))
        ELSE Raise(b, IF node.t = "Sub" THEN "Sub can operate with numbers only"
                      ELSE "Mult can operate with numbers only")

\* Div::Execute
ExecDiv(node, S) ==
    LET b == ExecBoth(node, S)
        lhs == b.val[1]
        rhs == b.val[2]
    IN  IF b.sig # "ok" THEN b
        ELSE IF lhs.kind # "Number" \/ rhs.kind # "Number" 
        THEN Raise(b, "Sub can operate with numbers only")
        ELSE IF rhs.v = 0 THEN Raise(b, "Division by zero")
        ELSE IF lhs.v = IntMin /\ rhs.v = 0 - 1      \* signed overflow
        THEN IF S.orc.ub = "crash" THEN Asked(Crash(b), "ub")
             ELSE Asked(Ok(b, Number(IntMin)), "ub")
        ELSE Ok(b, Number(TruncDiv(lhs.v, rhs.v)))

\* A variant of Or::Execute and And::Execute that leaves the right operand
\* alone when the left one decides.
ExecOrAndShortCircuit(node, S) ==
    LET l == Execute(node.lhs, S)
    IN  IF l.sig # "ok" THEN l
        ELSE IF IsTrue(l.val) = (node.t = "Or") THEN Ok(l, Bool(node.t = "Or"))
        ELSE LET r == Execute(node.rhs, l)
             IN  IF r.sig # "ok" THEN r ELSE Ok(r, Bool(IsTrue(r.val)))

\* Or::Execute, And::Execute
ExecOrAnd(node, S) ==
    LET b == ExecBoth(node, S)
    IN  IF b.sig # "ok" THEN b
        ELSE IF node.t = "Or" THEN Ok(b, Bool(IsTrue(b.val[1]) \/ IsTrue(b.val[2])))
        ELSE Ok(b, Bool(IsTrue(b.val[1]) /\ IsTrue(b.val[2])))

\* Not::Execute
ExecNot(node, S) ==
    LET r == Execute(node.argument, S)
    IN  IF r.sig # "ok" THEN r ELSE Ok(r, Bool(~IsTrue(r.val)))

\* Comparison::Execute: the two operands are function arguments, which the
\* compiler may evaluate in either order.
ExecComparison(node, S) ==
    LET first == IF S.orc.ord = "lr" THEN node.lhs ELSE node.rhs
        second == IF S.orc.ord = "lr" THEN node.rhs ELSE node.lhs
        a == Execute(first, Asked(S, "ord"))
    IN  IF a.sig # "ok" THEN a
        ELSE LET b == Execute(second, a)
             IN  IF b.sig # "ok" THEN b
                 ELSE Compare(node.cmp, IF S.orc.ord = "lr" THEN a.val ELSE b.val,
                              IF S.orc.ord = "lr" THEN b.val ELSE a.val, b)

\* Assignment::Execute
ExecAssignment(node, S) ==
    LET r == Execute(node.rv, S)
    IN  IF r.sig # "ok" THEN r
        ELSE Log([r EXCEPT !.closure = Bind(r.closure, node.var, r.val)],
                 [e |-> "assign", fr |-> S.frame, var |-> node.var, val |-> r.val])

\* MethodCall::Execute
ExecMethodCall(node, S) ==
    LET o == Execute(node.object, S)
        obj == o.val
    IN  IF o.sig # "ok" THEN o
        ELSE IF obj = None THEN Raise(o, "Method: " \o node.method \o " call error")
        ELSE IF obj.kind # "ClassInstance"     \* HasMethod through a null pointer
        THEN IF S.orc.ub = "crash" THEN Asked(Crash(o), "ub") ELSE 
             Asked(Raise(o, "Method: " \o node.method \o " call error"), "ub")
        ELSE IF HasMethod(classes, o.heap[obj.v].cls, node.method, Len(node.args))
        THEN LET a == ExecArgs(node.args, o)
             IN  IF a.sig # "ok" THEN a ELSE Call(obj.v, node.method, a.val, a)
        ELSE Raise(o, "Method: " \o node.method \o " call error")

\* Stringify::Execute
ExecStringify(node, S) ==
    IF node.argument = NoStmt THEN Ok(S, None)
    ELSE LET r == Execute(node.argument, S)
         IN  IF r.sig # "ok" THEN r
             ELSE IF r.val = None THEN Ok(r, String(<<"N","o","n","e">>))
             ELSE PrintValue(r.val, r)

\* Compound::Execute, from statement k on.
ExecCompoundFrom(statements, k, S) ==
    IF k > Len(statements) THEN Ok(S, None)
    ELSE LET r == Execute(statements[k], S)
         IN  IF r.sig # "ok" THEN r ELSE ExecCompoundFrom(statements, k + 1, r)

\* Return::Execute: throw statement_->Execute(closure, context);
ExecReturn(node, S) ==
    LET r == Execute(node.statement, S)
    IN  IF r.sig # "ok" THEN r
        ELSE [Log(r, [e |-> "return", fr |-> S.frame, val |-> r.val]) EXCEPT !.sig = "return"]

\* ClassDefinition::Execute: closure.emplace(name, std::move(cls_)).  A node
\* whose cls_ was moved away holds no Class any more; whether emplace moves
\* from cls_ when the name is already bound is the library's choice.
ExecClassDefinition(node, S) ==
    LET c == node.cls
        name == classes[c].name
    IN  IF c \in S.moved
        THEN IF S.orc.ub = "crash" THEN Asked(Crash(S), "ub") ELSE Asked(Ok(S, None), "ub")
        ELSE IF name \notin DOMAIN S.closure
        THEN Ok([S EXCEPT !.closure = Bind(S.closure, name, ClassObj(c)),
                          !.moved = @ \cup {c}], None)
        ELSE IF S.orc.mv THEN Asked(Ok([S EXCEPT !.moved = @ \cup {c}], None), "mv")
        ELSE Asked(Ok(S, None), "mv")

\* FieldAssignment::Execute
ExecFieldAssignment(node, S) ==
    LET o == Execute(node.object, S)
        target == o.val
    IN  IF o.sig # "ok" THEN o
        ELSE IF target.kind # "ClassInstance"     \* Fields() through a null pointer
        THEN IF S.orc.ub = "crash" THEN Asked(Crash(o), "ub")
             ELSE LET v == Execute(node.rv, Asked(o, "ub"))
                  IN  IF v.sig # "ok" THEN v ELSE Crash(v)
        ELSE LET v == Execute(node.rv, o)
             IN  IF v.sig # "ok" THEN v
                 ELSE [v EXCEPT !.heap[target.v].fields = Bind(@, node.field_name, v.val)]

\* IfElse::Execute
ExecIfElse(node, S) ==
    LET c == Execute(node.condition, S)
    IN  IF c.sig # "ok" THEN c
        ELSE IF IsTrue(c.val) THEN Execute(node.if_body, c)
        ELSE IF node.else_body # NoStmt THEN Execute(node.else_body, c)
        ELSE Ok(c, None)

\* A variant of NewInstance::Execute in which __init__ runs on a copy: the
\* instance handed back is another object than the one self denoted.
ExecNewInstanceCopy(node, S) ==
    LET i == Len(S.heap) + 1
        S1 == Log([S EXCEPT !.heap = Append(Append(@, [cls |-> node.cls, fields |-> <<>>]),
                                            [cls |-> node.cls, fields |-> <<>>])],
                  [e |-> "new", fr |-> S.frame, inst |-> i])
    IN  IF HasMethod(classes, node.cls, INIT_METHOD, Len(node.args))
        THEN LET a == ExecArgs(node.args, S1)
             IN  IF a.sig # "ok" THEN a
                 ELSE LET Then(r) == IF r.sig # "ok" THEN r ELSE Ok(r, Instance(i))
                      IN  Then(Call(i + 1, INIT_METHOD, a.val, a))
        ELSE Ok(S1, Instance(i))

\* A variant of NewInstance::Execute that hands out the instance of the class
\* that exists already, when there is one.
ExecNewInstanceShared(node, S) ==
    LET same == {j \in 1..Len(S.heap) : S.heap[j].cls = node.cls}
        i == IF same = {} THEN Len(S.heap) + 1 ELSE CHOOSE j \in same : TRUE
        S1 == Log(IF same = {}
                  THEN [S EXCEPT !.heap = Append(@, [cls |-> node.cls, fields |-> <<>>])]
                  ELSE S,
                  [e |-> "new", fr |-> S.frame, inst |-> i])
    IN  IF HasMethod(classes, node.cls, INIT_METHOD, Len(node.args))
        THEN LET a == ExecArgs(node.args, S1)
             IN  IF a.sig # "ok" THEN a
                 ELSE LET Then(r) == IF r.sig # "ok" THEN r ELSE Ok(r, Instance(i))
                      IN  Then(Call(i, INIT_METHOD, a.val, a))
        ELSE Ok(S1, Instance(i))

\* A variant of NewInstance::Execute that evaluates the arguments before it
\* asks for __init__.
ExecNewInstanceEager(node, S) ==
    LET i == Len(S.heap) + 1
        S1 == Log([S EXCEPT !.heap = Append(@, [cls |-> node.cls, fields |-> <<>>])],
                  [e |-> "new", fr |-> S.frame, inst |-> i])
        Then(a) ==
            IF a.sig # "ok" THEN a
            ELSE IF HasMethod(classes, node.cls, INIT_METHOD, Len(node.args))
            THEN LET After(r) == IF r.sig # "ok" THEN r ELSE Ok(r, Instance(i))
                 IN  After(Call(i, INIT_METHOD, a.val, a))
            ELSE Ok(a, Instance(i))
    IN  Then(ExecArgs(node.args, S1))

\* NewInstance::Execute
ExecNewInstance(node, S) ==
    LET i == Len(S.heap) + 1
        S1 == Log([S EXCEPT !.heap = Append(@, [cls |-> node.cls, fields |-> <<>>])],
                  [e |-> "new", fr |-> S.frame, inst |-> i])
    IN  IF HasMethod(classes, node.cls, INIT_METHOD, Len(node.args))
        THEN LET a == ExecArgs(node.args, S1)
             IN  IF a.sig # "ok" THEN a
                 ELSE LET Then(r) == IF r.sig # "ok" THEN r ELSE Ok(r, Instance(i))
                      IN  Then(Call(i, INIT_METHOD, a.val, a))
        ELSE Ok(S1, Instance(i))

\* A variant of MethodBody::Execute that catches everything: a runtime_error
\* ends the method like a missing Return.
ExecMethodBodyCatchAll(node, S) ==
    LET r == Execute(node.body, S)
    IN  IF r.sig = "return" THEN Ok(r, r.val)
        ELSE IF r.sig \in {"ok", "error"} THEN Ok(r, None)
        ELSE r

\* A variant of MethodBody::Execute without the catch: a thrown value goes on
\* to the caller.
ExecMethodBodyNoCatch(node, S) == Execute(node.body, S)

\* MethodBody::Execute: try { body_->Execute } catch (ObjectHolder res) { return res; }
ExecMethodBody(node, S) ==
    LET r == Execute(node.body, S)
    IN  IF r.sig = "return" THEN Ok(r, r.val)
        ELSE IF r.sig = "ok" THEN Ok(r, None)
        ELSE r

\* Statement::Execute, dispatched on the node's class.
Execute(node, S0) ==
    LET S == Log(S0, [e |-> "exec", fr |-> S0.frame, t |-> node.t])
        t == node.t
    IN  CASE t = "Const" -> ExecConst(node, S)
          [] t = "Assignment" -> ExecAssignment(node, S)
          [] t = "VariableValue" -> ExecVariableValue(node, S)
          [] t = "Print" -> PrintLoop(node.args, 1, S.ctx, S)
          [] t = "MethodCall" -> ExecMethodCall(node, S)
          [] t = "Stringify" -> ExecStringify(node, S)
          [] t = "Add" -> ExecAdd(node, S)
          [] t \in {"Sub", "Mult"} -> ExecSubMult(node, S)
          [] t = "Div" -> ExecDiv(node, S)
          [] t = "Compound" -> ExecCompoundFrom(node.statements, 1, S)
          [] t = "Return" -> ExecReturn(node, S)
          [] t = "ClassDefinition" -> ExecClassDefinition(node, S)
          [] t = "FieldAssignment" -> ExecFieldAssignment(node, S)
          [] t = "IfElse" -> ExecIfElse(node, S)
          [] t \in {"Or", "And"} -> ExecOrAnd(node, S)
          [] t = "Not" -> ExecNot(node, S)
          [] t = "Comparison" -> ExecComparison(node, S)
          [] t = "NewInstance" -> ExecNewInstance(node, S)
          [] t = "MethodBody" -> ExecMethodBody(node, S)

(***************************************************************************)
(*                    THE PROGRAM AND ITS EXECUTION                        *)
(***************************************************************************)

Self == VariableValue(<<"self">>)
Var(name) == VariableValue(<<name>>)
Num(n) == Const(Number(n))
Body(statements) == MethodBody(Compound(statements))

\* The classes of the program under execution, as the parser builds them:
\*   class A:                          class B(A):
\*     def __init__(v): self.f = v       def get(v): return v
\*     def get(): return self.f          def __str__(): return 'b'
\*     def set(v): self.f = v          class C:
\*     def pick(c): ...                  def peek(): return x
\*     def twice(c): ...                 def fail(d): ...
\*     def rec(n): ...                   def outer(d): ...
\*     def show(): print self.f; return self.f
ClassA ==
    Class("A", <<
        Method("__init__", <<"v">>, Body(<<FieldAssignment(Self, "f", Var("v"))>>)),
        Method("get", <<>>, Body(<<Return(VariableValue(<<"self", "f">>))>>)),
        Method("set", <<"v">>, Body(<<FieldAssignment(Self, "f", Var("v"))>>)),
        \* if c:
        \*   t = 1
        \*   if True: return t      (inside a nested block)
        \*   self.g = 8
        \* else:
        \*   self.g = 2
        \* self.g = 3
        Method("pick", <<"c">>, Body(<<
            IfElse(Var("c"),
                   Compound(<<Assignment("t", Num(1)),
                              Compound(<<IfElse(Const(Bool(TRUE)),
                                                Compound(<<Return(Var("t"))>>), NoStmt),
                                         FieldAssignment(Self, "g", Num(7))>>),
                              FieldAssignment(Self, "g", Num(8))>>),
                   Compound(<<FieldAssignment(Self, "g", Num(2))>>)),
            FieldAssignment(Self, "g", Num(3))>>)),
        \* x = self.pick(c); self.f = x; return 5
        Method("twice", <<"c">>, Body(<<
            Assignment("x", MethodCall(Self, "pick", <<Var("c")>>)),
            FieldAssignment(Self, "f", Var("x")),
            Return(Num(5))>>)),
        \* y = n; if n: self.rec(n - 1); return y
        Method("rec", <<"n">>, Body(<<
            Assignment("y", Var("n")),
            IfElse(Var("n"),
                   Compound(<<MethodCall(Self, "rec", <<BinaryOp("Sub", Var("n"), Num(1))>>)>>),
                   NoStmt),
            Return(Var("y"))>>)),
        Method("show", <<>>, Body(<<
            PrintNode(<<VariableValue(<<"self", "f">>)>>),
            Return(VariableValue(<<"self", "f">>))>>))
    >>, 0)

ClassB ==
    Class("B", <<
        Method("get", <<"v">>, Body(<<Return(Var("v"))>>)),
        Method("__str__", <<>>, Body(<<Return(Const(String(<<"b">>)))>>))
    >>, 1)

ClassC ==
    Class("C", <<
        Method("peek", <<>>, Body(<<Return(Var("x"))>>)),
        \* self.g = 1
        \* if True:
        \*   t = 6 / d
        \*   self.g = 2
        \* self.g = 3
        \* return t
        Method("fail", <<"d">>, Body(<<
            FieldAssignment(Self, "g", Num(1)),
            IfElse(Const(Bool(TRUE)),
                   Compound(<<Assignment("t", BinaryOp("Div", Num(6), Var("d"))),
                              FieldAssignment(Self, "g", Num(2))>>),
                   NoStmt),
            FieldAssignment(Self, "g", Num(3)),
            Return(Var("t"))>>)),
        \* self.h = 1; y = self.fail(d); self.h = 2; return 7
        Method("outer", <<"d">>, Body(<<
            FieldAssignment(Self, "h", Num(1)),
            Assignment("y", MethodCall(Self, "fail", <<Var("d")>>)),
            FieldAssignment(Self, "h", Num(2)),
            Return(Num(7))>>)),
        \* def me(self): return self
        Method("me", <<"self">>, Body(<<Return(Self)>>)),
        \* t = self; self = v; return t
        Method("own", <<"v">>, Body(<<
            Assignment("t", Self),
            Assignment("self", Var("v")),
            Return(Var("t"))>>))
    >>, 0)

ProgramClasses == <<ClassA, ClassB, ClassC>>

\* The state a top-level Execute starts from.
TopState(orc) ==
    [closure |-> closure, heap |-> heap, out |-> out, moved |-> moved, ctx |-> "real",
     sig |-> "ok", val |-> None, log |-> <<>>, frame |-> 0, nframes |-> 0, depth |-> 0,
     orc |-> orc, nd |-> {}]

\* Every result the build can give: one per oracle when an oracle was asked.
Outcomes(F(_)) ==
    LET Pick(d) == IF d.nd = {} THEN {d} ELSE {F(TopState(o)) : o \in Oracles}
    IN  Pick(F(TopState(DefaultOracle)))

\* What an operation's result leaves behind.  An exception that reaches the
\* top ends the run: a runtime_error ("error"), or a thrown ObjectHolder that
\* nothing catches ("crashed", as is a crash).
Finish(op, node, r) ==
    /\ closure' = r.closure
    /\ heap' = r.heap
    /\ out' = r.out
    /\ moved' = r.moved
    /\ status' = (CASE r.sig = "ok" -> "running"
                    [] r.sig = "error" -> "error"
                    [] OTHER -> "crashed")
    /\ steps' = steps + 1
    /\ last' = [op |-> op, node |-> node, sig |-> r.sig, val |-> r.val, log |-> r.log]
    /\ UNCHANGED <<classes, lexvars>>

\* The program executes one more top-level statement.
Run(op, node) ==
    /\ status = "running"
    /\ LET F(S) == Execute(node, S)
       IN  \E r \in Outcomes(F) : Finish(op, node, r)

GlobalNames == {"x", "y"}

\* name = <literal or name>
DoAssignment ==
    /\ steps < MaxSteps
    /\ \E var \in GlobalNames : \E rv \in {Num(1), Const(None), Var("x")} :
           Run("Assignment", Assignment(var, rv))

\* name = Class(args):  A(), A(2), A(y), A(A(2)), B(), B(2), C()
DoNewInstance ==
    /\ steps < MaxSteps
    /\ \E var \in GlobalNames :
       \E new \in {<<1, <<>>>>, <<1, <<Num(2)>>>>, <<1, <<Var("y")>>>>,
                   <<1, <<NewInstance(1, <<Num(2)>>)>>>>,
                   <<2, <<>>>>, <<2, <<Num(2)>>>>, <<3, <<>>>>} :
           Run("NewInstance", Assignment(var, NewInstance(new[1], new[2])))

\* path.f = <literal or name>
DoFieldAssignment ==
    /\ steps < MaxSteps
    /\ \E ids \in {<<"x">>, <<"y">>, <<"x", "f">>} : \E rv \in {Num(1), Var("y")} :
           Run("FieldAssignment", FieldAssignment(VariableValue(ids), "f", rv))

\* a name or a dotted path, evaluated
DoVariableValue ==
    /\ steps < MaxSteps
    /\ \E ids \in {<<"x">>, <<"x", "f">>, <<"y", "f">>, <<"x", "f", "f">>} :
           Run("VariableValue", VariableValue(ids))

\* print args
DoPrint ==
    /\ steps < MaxSteps
    /\ \E args \in {<<Var("x")>>, <<Var("y"), Const(None)>>,
                    <<VariableValue(<<"x", "f">>), Const(Bool(TRUE)), Const(String(<<"a", "b">>)),
                      Var("A")>>,
                    <<Num(1), MethodCall(Var("x"), "show", <<>>)>>} :
           Run("Print", PrintNode(args))

\* name.method(args)
DoMethodCall ==
    /\ steps < MaxSteps
    /\ \E var \in GlobalNames :
       \E call \in {<<"get", <<>>>>, <<"get", <<Num(1)>>>>, <<"set", <<Var("y")>>>>,
                    <<"twice", <<Const(Bool(TRUE))>>>>, <<"twice", <<Const(Bool(FALSE))>>>>,
                    <<"rec", <<Num(2)>>>>, <<"show", <<>>>>, <<"peek", <<>>>>} :
           Run("MethodCall", MethodCall(Var(var), call[1], call[2]))

\* class Name: ...
DoClassDefinition ==
    /\ steps < MaxSteps
    /\ \E c \in 1..Len(classes) : Run("ClassDefinition", ClassDefinition(c))

\* ClassInstance::Call(method, actual_args, context), called on an instance
\* directly (as Add, Equal, Less and the instance's Print do).
DoCall ==
    /\ status = "running"
    /\ steps < MaxSteps
    /\ \E i \in 1..Len(heap) :
       \E method \in {"get", "set", "__eq__"} :
       \E actual_args \in {<<>>, <<Number(1)>>} :
          LET F(S) == Call(i, method, actual_args, S)
          IN  \E r \in Outcomes(F) :
                 Finish("Call", [recv |-> i, method |-> method, args |-> actual_args], r)

Init ==
    /\ LexerIdle
    /\ classes = ProgramClasses
    /\ closure = <<>>
    /\ heap = <<>>
    /\ out = <<>>
    /\ moved = {}
    /\ status = "running"
    /\ steps = 0
    /\ last = [op |-> "none"]

Next ==
    \/ DoAssignment
    \/ DoNewInstance
    \/ DoFieldAssignment
    \/ DoVariableValue
    \/ DoPrint
    \/ DoMethodCall
    \/ DoClassDefinition
    \/ DoCall

Spec == Init /\ [][Next]_vars

(***************************************************************************)
(* Programs of operators: logic, division, calls that fail inside nested   *)
(* blocks, class definitions over names already bound.                     *)
(***************************************************************************)

\* name = Class(args), as in DoNewInstance
OpNewInstance ==
    /\ steps < MaxOps
    /\ DoNewInstance

\* class Name: ..., as in DoClassDefinition
OpClassDefinition ==
    /\ steps < MaxOps
    /\ DoClassDefinition

\* A = 1: a class's name is given another value
DoRebind ==
    /\ steps < MaxOps
    /\ Run("Assignment", Assignment("A", Num(1)))

\* lhs or rhs, lhs and rhs: the right operand assigns, assigns a field,
\* prints or calls a method
DoLogic ==
    /\ steps < MaxOps
    /\ \E t \in {"Or", "And"} :
       \E lhs \in {Const(Bool(TRUE)), Const(Bool(FALSE)), Var("x")} :
       \E rhs \in {Assignment("y", Num(2)),
                   FieldAssignment(Var("x"), "f", Num(0)),
                   PrintNode(<<Num(1)>>),
                   MethodCall(Var("x"), "set", <<Const(String(<<"a">>))>>)} :
           Run("Logic", BinaryOp(t, lhs, rhs))

\* lhs / rhs on literals
DoDiv ==
    /\ steps < MaxOps
    /\ LET lhs == <<Num(IntMin), Num(0 - 7), Num(7), Const(None), Const(String(<<"a">>))>>
           rhs == <<Num(0 - 2), Num(2), Num(0 - 1), Num(0), Const(None)>>
       IN  \E i \in 1..Len(lhs) : \E j \in 1..Len(rhs) :
               Run("Div", BinaryOp("Div", lhs[i], rhs[j]))

\* name.outer(d): outer calls fail, which divides by d inside a nested block
DoNestedCall ==
    /\ steps < MaxOps
    /\ \E var \in GlobalNames : \E d \in {0, 1} :
           Run("MethodCall", MethodCall(Var(var), "outer", <<Num(d)>>))

\* name.me(1), name.own(1): me declares a formal parameter named self, own
\* assigns to self
DoSelfCall ==
    /\ steps < MaxOps
    /\ \E var \in GlobalNames : \E method \in {"me", "own"} :
           Run("MethodCall", MethodCall(Var(var), method, <<Num(1)>>))

\* name = Class(args) where the class has no __init__ for the arguments:
\* C(y), C(A(2)), C(x.set(1)), A(1, 2), A(y, x.set(1)), B(), B(y, y)
DoNewWithoutInit ==
    /\ steps < MaxOps
    /\ \E var \in GlobalNames :
       \E new \in {<<3, <<Var("y")>>>>,
                   <<3, <<NewInstance(1, <<Num(2)>>)>>>>,
                   <<3, <<MethodCall(Var("x"), "set", <<Num(1)>>)>>>>,
                   <<1, <<Num(1), Num(2)>>>>,
                   <<1, <<Var("y"), MethodCall(Var("x"), "set", <<Num(1)>>)>>>>,
                   <<2, <<>>>>,
                   <<2, <<Var("y"), Var("y")>>>>} :
           Run("NewInstance", Assignment(var, NewInstance(new[1], new[2])))

NextOperators ==
    \/ OpNewInstance
    \/ DoNewWithoutInit
    \/ OpClassDefinition
    \/ DoRebind
    \/ DoLogic
    \/ DoDiv
    \/ DoNestedCall
    \/ DoSelfCall

SpecOperators == Init /\ [][NextOperators]_vars

(***************************************************************************)
(*              THE RUNTIME'S FUNCTIONS ON THEIR OWN                       *)
(***************************************************************************)

MaxClasses == 3

MethodNames == {"f", "g"}
ClassNames == <<"A", "B", "C", "D", "E">>

\* The method lists a class can have: each name defined at most once, in
\* either order.  Every method of class k is  def name(): return k.
MethodLists(k) ==
    LET M(name) == Method(name, <<>>, Body(<<Return(Num(k))>>))
    IN  {<<>>} \cup {<<M(n)>> : n \in MethodNames}
               \cup {<<M(n1), M(n2)>> : <<n1, n2>> \in {p \in MethodNames \X MethodNames : p[1] # p[2]}}

\* The class tables of n classes: the parent of a class is a class defined
\* before it, or none.
RECURSIVE ClassTables(_)
ClassTables(n) ==
    IF n = 0 THEN {<<>>}
    ELSE {Append(t, Class(ClassNames[n], ms, p)) :
            <<t, ms, p>> \in ClassTables(n - 1) \X MethodLists(n) \X (0..(n - 1))}

\* The objects Equal is applied to.
Values ==
    <<None, Bool(TRUE), Bool(FALSE), Number(0 - 1), Number(0), Number(1),
      String(<<>>), String(<<"a">>), String(<<"a", "b">>), String(<<"b">>),
      ClassObj(1), Instance(1), Instance(2)>>

\* The comparators a Comparison node can hold.
Comparators == {"Equal", "NotEqual", "Less", "Greater", "LessOrEqual", "GreaterOrEqual"}

\* Either a class table and a GetMethod query on it, or the program's classes,
\* an instance of C and one of B (x = C(), y = B(), y.f = 1) and the operands
\* of Equal, of the six comparators (no pair of two instances), or of IsTrue.
InitRuntime ==
    /\ LexerIdle
    /\ closure = <<>>
    /\ out = <<>>
    /\ moved = {}
    /\ status = "pure"
    /\ steps = 0
    /\ \/ /\ classes \in ClassTables(MaxClasses)
          /\ heap = <<>>
          /\ last \in [op : {"input"}, fn : {"GetMethod"}, c : 1..MaxClasses, name : MethodNames]
       \/ /\ classes = ProgramClasses
          /\ heap = <<[cls |-> 3, fields |-> <<>>], [cls |-> 2, fields |-> <<>>]>>
          /\ \E i \in 1..Len(Values) : \E j \in 1..Len(Values) :
                last = [op |-> "input", fn |-> "Equal", lhs |-> Values[i], rhs |-> Values[j]]
       \/ /\ classes = ProgramClasses
          /\ heap = <<[cls |-> 3, fields |-> <<>>], [cls |-> 2, fields |-> <<>>]>>
          /\ \E i \in 1..Len(Values) : \E j \in 1..Len(Values) :
                /\ ~(Values[i].kind = "ClassInstance" /\ Values[j].kind = "ClassInstance")
                /\ last = [op |-> "input", fn |-> "Compare",
                           lhs |-> Values[i], rhs |-> Values[j]]
       \/ /\ classes = ProgramClasses
          /\ heap = <<[cls |-> 3, fields |-> <<>>],
                      [cls |-> 2, fields |-> Bind(<<>>, "f", Number(1))]>>
          /\ \E i \in 1..Len(Values) :
                last = [op |-> "input", fn |-> "IsTrue", object |-> Values[i]]

\* classes[c].GetMethod(name)
DoGetMethod ==
    /\ last.op = "input"
    /\ last.fn = "GetMethod"
    /\ last' = [op |-> "GetMethod", c |-> last.c, name |-> last.name,
                res |-> GetMethod(classes, last.c, last.name)]
    /\ steps' = steps + 1
    /\ UNCHANGED <<classes, closure, heap, out, moved, status, lexvars>>

\* Equal(lhs, rhs, context)
DoEqual ==
    /\ last.op = "input"
    /\ last.fn = "Equal"
    /\ LET F(S) == Equal(last.lhs, last.rhs, S)
       IN  \E r \in Outcomes(F) :
              /\ last' = [op |-> "Equal", lhs |-> last.lhs, rhs |-> last.rhs,
                          sig |-> r.sig, val |-> r.val]
              /\ heap' = r.heap
              /\ out' = r.out
    /\ steps' = steps + 1
    /\ UNCHANGED <<classes, closure, moved, status, lexvars>>

\* Equal, NotEqual, Less, Greater, LessOrEqual and GreaterOrEqual applied to
\* one pair of operands; none of them has an effect on such a pair.
DoCompare ==
    /\ last.op = "input"
    /\ last.fn = "Compare"
    /\ \E o \in Oracles :
          LET R(cmp) == Compare(cmp, last.lhs, last.rhs, TopState(o))
              res == [cmp \in Comparators |-> [sig |-> R(cmp).sig, val |-> R(cmp).val]]
          IN  last' = [op |-> "Compare", lhs |-> last.lhs, rhs |-> last.rhs, res |-> res]
    /\ steps' = steps + 1
    /\ UNCHANGED <<classes, closure, heap, out, moved, status, lexvars>>

\* IsTrue(object)
DoIsTrue ==
    /\ last.op = "input"
    /\ last.fn = "IsTrue"
    /\ last' = [op |-> "IsTrue", object |-> last.object, res |-> IsTrue(last.object)]
    /\ steps' = steps + 1
    /\ UNCHANGED <<classes, closure, heap, out, moved, status, lexvars>>

NextRuntime ==
    \/ DoGetMethod
    \/ DoEqual
    \/ DoCompare
    \/ DoIsTrue

SpecRuntime == InitRuntime /\ [][NextRuntime]_vars

(***************************************************************************)
(*                   PROPERTIES OF THE RUNTIME'S FUNCTIONS                 *)
(***************************************************************************)

\* Two holders (or errors) are the same: of one kind, and equal.
Same(a, b) == a.kind = b.kind /\ a = b

\* The k-th class up the chain from c (0 when the chain is shorter).
RECURSIVE Ancestor(_, _, _)
Ancestor(cs, c, k) == IF k = 0 \/ c = 0 THEN c ELSE Ancestor(cs, cs[c].parent, k - 1)

Defines(cs, c, name) ==
    c # 0 /\ \E k \in 1..Len(cs[c].methods) : cs[c].methods[k].name = name

\* The nearest class on the chain of c that defines name; 0 when none does.
Nearest(cs, c, name) ==
    LET ks == {k \in 0..Len(cs) : Defines(cs, Ancestor(cs, c, k), name)}
    IN  IF ks = {} THEN 0
        ELSE Ancestor(cs, c, CHOOSE k \in ks : \A j \in ks : k <= j)

\* C6: Class::GetMethod(name) returns the method of that name that the
\* nearest class on the chain class, parent, parent's parent, ... defines, and
\* returns no method exactly when no class on the chain defines the name.
C6_GetMethodNearestOnChain ==
    last.op = "GetMethod" =>
        LET n == Nearest(classes, last.c, last.name)
        IN  IF n = 0 THEN ~last.res.found
            ELSE /\ last.res.found
                 /\ last.res.cls = n
                 /\ last.res.m.name = last.name
                 /\ \E k \in 1..Len(classes[n].methods) : classes[n].methods[k] = last.res.m

\* A subclass and its parent both define the name: the subclass's is returned.
C6_Witness ==
    /\ last.op = "GetMethod"
    /\ last.res.found
    /\ last.res.cls = last.c
    /\ Defines(classes, classes[last.c].parent, last.name)

\* C10: Equal is true for two Nones, is value equality for two Bools, two
\* Strings or two Numbers (so Equal(x, x) is true for these), and raises
\* "different types compared" for every other pair that is not two instances.
C10_EqualOnValues ==
    last.op = "Equal" =>
        LET l == last.lhs
            r == last.rhs
            true == last.sig = "ok" /\ Same(last.val, Bool(TRUE))
            false == last.sig = "ok" /\ Same(last.val, Bool(FALSE))
        IN  /\ (l.kind = "None" /\ r.kind = "None") => true
            /\ (l.kind = r.kind /\ l.kind \in {"Bool", "String", "Number"}) =>
                   IF l.v = r.v THEN true ELSE false
            /\ (Same(l, r) /\ l.kind \in {"None", "Bool", "String", "Number"}) => true
            /\ (l.kind # r.kind \/ l.kind = "Class") =>
                   (last.sig = "error" /\ Same(last.val, RuntimeError("different types compared")))

\* None compared with a Number: the error.
C10_Witness ==
    /\ last.op = "Equal"
    /\ Same(last.lhs, None)
    /\ Same(last.rhs, Number(0))
    /\ last.sig = "error"

\* a comes before b in the lexicographic order of the characters' codes.
LexBefore(a, b) ==
    \E k \in 1..(Len(b)) :
        /\ \A j \in 1..(k - 1) : j <= Len(a) /\ a[j] = b[j]
        /\ (k > Len(a) \/ (k <= Len(a) /\ CharCode(a[k]) < CharCode(b[k])))

\* lhs comes before rhs in the natural order of their kind.
Before(l, r) ==
    CASE l.kind = "Bool" -> ~l.v /\ r.v
      [] l.kind = "Number" -> l.v < r.v
      [] l.kind = "String" -> LexBefore(l.v, r.v)

\* C11: for two Bools, two Numbers or two Strings exactly one of Less, Equal
\* and Greater holds (Less being the natural order), NotEqual negates Equal,
\* LessOrEqual is Less or Equal and GreaterOrEqual is not Less; for any other
\* pair that is not two instances Less, Greater, LessOrEqual and
\* GreaterOrEqual raise a runtime error.
C11_ComparatorsOnPrimitives ==
    last.op = "Compare" =>
        LET l == last.lhs
            r == last.rhs
            Said(cmp) == last.res[cmp].sig = "ok" /\ last.res[cmp].val.kind = "Bool"
            Holds(cmp) == last.res[cmp].val.v
            Raised(cmp) == /\ last.res[cmp].sig = "error"
                           /\ Same(last.res[cmp].val, RuntimeError("different types compared"))
        IN  IF l.kind = r.kind /\ l.kind \in {"Bool", "Number", "String"}
            THEN /\ \A cmp \in Comparators : Said(cmp)
                 /\ Cardinality({cmp \in {"Less", "Equal", "Greater"} : Holds(cmp)}) = 1
                 /\ Holds("Less") <=> Before(l, r)
                 /\ Holds("Greater") <=> Before(r, l)
                 /\ Holds("NotEqual") <=> ~Holds("Equal")
                 /\ Holds("LessOrEqual") <=> (Holds("Less") \/ Holds("Equal"))
                 /\ Holds("GreaterOrEqual") <=> ~Holds("Less")
            ELSE \A cmp \in {"Less", "Greater", "LessOrEqual", "GreaterOrEqual"} : Raised(cmp)

\* 'a' compared with 'ab': Less holds and Greater does not.
C11_Witness ==
    /\ last.op = "Compare"
    /\ Same(last.lhs, String(<<"a">>))
    /\ Same(last.rhs, String(<<"a", "b">>))
    /\ last.res["Less"].val.kind = "Bool"
    /\ last.res["Less"].val.v
    /\ ~last.res["Greater"].val.v

\* C12: IsTrue is false for None, for a Class and for an instance, whatever
\* its fields and methods; false for False, 0 and the empty String; true for
\* True, a Number other than 0 and a String that is not empty.
C12_IsTrueByKind ==
    last.op = "IsTrue" =>
        LET o == last.object
        IN  last.res <=> \/ o.kind = "Bool" /\ o.v
                         \/ o.kind = "Number" /\ o.v # 0
                         \/ o.kind = "String" /\ o.v # <<>>

\* The instance of B, which has a field and a __str__ method, is not true.
C12_Witness ==
    /\ last.op = "IsTrue"
    /\ Same(last.object, Instance(2))
    /\ heap[2].fields # <<>>
    /\ ~last.res

(***************************************************************************)
(*                      PROPERTIES OF THE EVALUATOR                        *)
(***************************************************************************)

\* The positions of the events of kind e in a log.
Events(log, e) == {k \in 1..Len(log) : log[k].e = e}

MaxOf(S) == CHOOSE k \in S : \A j \in S : j <= k

\* An operation of the program has left its record in last.
Ran(op) == last.op = op

\* What goes on in an invocation's own frame.
FrameEvents == {"exec", "arg", "printarg", "operand", "assign", "write", "new", "return"}

\* C1: after a Return has executed in an invocation, at any depth of Compound
\* and IfElse nodes, nothing more of that method body executes and the call
\* yields the returned value as a normal result; the call result of an
\* invocation depends on its own Return only (a Return in a callee does not
\* end the caller's body), and is None when the body ends without a Return.
C1_ReturnExitsMethodBody ==
    last.op \in {"MethodCall", "NewInstance", "Print", "Call"} =>
        LET log == last.log
        IN  /\ \A i \in Events(log, "return") :
                  /\ \A j \in (i + 1)..Len(log) :
                        ~(log[j].fr = log[i].fr /\ log[j].e \in FrameEvents)
                  /\ \E j \in (i + 1)..Len(log) :
                        /\ log[j].e = "exit"
                        /\ log[j].fr = log[i].fr
                        /\ log[j].sig = "ok"
                        /\ Same(log[j].val, log[i].val)
            /\ \A j \in Events(log, "exit") :
                  (/\ log[j].sig = "ok"
                   /\ \A i \in Events(log, "return") : log[i].fr # log[j].fr)
                  => Same(log[j].val, None)
            /\ \A j \in Events(log, "exit") : log[j].sig # "return"
            \* x.twice(c):  x = self.pick(c); self.f = x; return 5
            /\ (Ran("MethodCall") /\ last.node.method = "twice" /\ last.sig = "ok") =>
                  /\ Same(last.val, Number(5))
                  /\ LET o == closure[last.node.object.dotted_ids[1]].v
                     IN  Same(heap[o].fields["f"],
                              IF last.node.args[1].v.v THEN Number(1) ELSE None)

\* x.twice(True) has returned 5: pick returned from inside its nested blocks,
\* and twice went on after the call.
C1_Witness ==
    /\ Ran("MethodCall")
    /\ last.node.method = "twice"
    /\ last.node.args[1].v.v
    /\ last.sig = "ok"
    /\ \E i \in Events(last.log, "return") : last.log[i].fr = 2

\* C4: after o.f = v has executed on an instance o, evaluating o.f yields v.
C4_FieldReadBack ==
    [][(/\ last.op = "FieldAssignment"
        /\ last.sig = "ok"
        /\ last'.op = "VariableValue"
        /\ last'.node.dotted_ids = last.node.object.dotted_ids \o <<last.node.field_name>>)
       => (last'.sig = "ok" /\ Same(last'.val, last.val))]_vars

\* The same, where o is given by a single name.
C4_Witness ==
    /\ Ran("VariableValue")
    /\ last.node.dotted_ids = <<"x", "f">>
    /\ last.sig = "ok"
    /\ Same(last.val, Number(1))

\* The call an operation made from the top level: the last one, those before
\* it being the calls its arguments made.
TopCall(log) ==
    log[MaxOf({i \in Events(log, "call") : log[i].from = 0})]

\* C5: self and the caller's handle denote one instance.  A field that
\* __init__ or set assigned through self is read with that value through the
\* caller's name afterwards; a field the caller assigned is read through self
\* by get and show; the receiver bound to self is the caller's object.
C5_SelfIsTheCallersInstance ==
    [][/\ (/\ last.op = "NewInstance"
           /\ last.sig = "ok"
           /\ last.node.rv.cls \in {1, 2}
           /\ Len(last.node.rv.args) = 1
           /\ last'.op = "VariableValue"
           /\ last'.node.dotted_ids = <<last.node.var, "f">>)
          => (last'.sig = "ok" /\ Same(last'.val, TopCall(last.log).args[1]))
       /\ (/\ last.op = "MethodCall"
           /\ last.sig = "ok"
           /\ last.node.method = "set"
           /\ last'.op = "VariableValue"
           /\ last'.node.dotted_ids = last.node.object.dotted_ids \o <<"f">>)
          => (last'.sig = "ok" /\ Same(last'.val, TopCall(last.log).args[1]))
       /\ (/\ last.op = "FieldAssignment"
           /\ last.sig = "ok"
           /\ Len(last.node.object.dotted_ids) = 1
           /\ last'.op = "MethodCall"
           /\ last'.node.object = last.node.object
           /\ last'.node.method \in {"get", "show"}
           /\ Len(last'.node.args) = 0
           /\ heap[closure[last.node.object.dotted_ids[1]].v].cls = 1)
          => (last'.sig = "ok" /\ Same(last'.val, last.val))
       /\ (/\ last'.op = "MethodCall"
           /\ Events(last'.log, "call") # {})
          => /\ Same(Instance(TopCall(last'.log).recv),
                     closure[last'.node.object.dotted_ids[1]])
             /\ Same(TopCall(last'.log).entry["self"],
                     closure[last'.node.object.dotted_ids[1]])
      ]_vars

\* x.get() has returned a 1 that is in the field f of x.
C5_Witness ==
    /\ Ran("MethodCall")
    /\ last.node.method = "get"
    /\ Len(last.node.args) = 0
    /\ last.sig = "ok"
    /\ Same(last.val, Number(1))
    /\ Same(heap[closure[last.node.object.dotted_ids[1]].v].fields["f"], Number(1))

\* C7: when the method that resolution finds for the name does not take as
\* many parameters as there are arguments, or there is none, Call raises a
\* runtime error, executes no body and changes no Fields.
C7_CallArityMismatchRaises ==
    [][last'.op = "Call" =>
          LET n == Nearest(classes, heap[last'.node.recv].cls, last'.node.method)
              fits == /\ n # 0
                      /\ \E k \in 1..Len(classes[n].methods) :
                            /\ classes[n].methods[k].name = last'.node.method
                            /\ \A j \in 1..(k - 1) :
                                  classes[n].methods[j].name # last'.node.method
                            /\ Len(classes[n].methods[k].formal_params) = Len(last'.node.args)
          IN  ~fits => /\ last'.sig = "error"
                       /\ Same(last'.val, RuntimeError("Class has no method: " \o last'.node.method))
                       /\ last'.log = <<>>
                       /\ heap' = heap
                       /\ closure' = closure
                       /\ out' = out
      ]_vars

\* get() called on an instance of B: B defines get(v), its parent A get().
C7_Witness ==
    /\ Ran("Call")
    /\ heap[last.node.recv].cls = 2
    /\ last.node.method = "get"
    /\ Len(last.node.args) = 0
    /\ last.sig = "error"

\* The formal parameters of the method an invocation runs.
FormalsOf(ev) ==
    LET ms == classes[ev.cls].methods
    IN  ms[CHOOSE k \in 1..Len(ms) : ms[k].name = ev.method].formal_params

\* C8: an invocation's closure holds at entry exactly self and the formal
\* parameters, bound to the receiver and the actual arguments; what it holds
\* at the end comes from its entry and its own assignments only; the caller's
\* closure is as it was; a name of the caller is not visible in the callee.
C8_FreshClosurePerInvocation ==
    [][last'.op \in {"MethodCall", "Call"} =>
          LET log == last'.log
          IN  /\ \A i \in Events(log, "call") :
                    LET ev == log[i]
                        formals == FormalsOf(ev)
                    IN  /\ DOMAIN ev.entry = {"self"} \cup {formals[k] : k \in 1..Len(formals)}
                        /\ Same(ev.entry["self"], Instance(ev.recv))
                        /\ Len(ev.args) = Len(formals)
                        /\ \A k \in 1..Len(formals) : Same(ev.entry[formals[k]], ev.args[k])
              /\ \A j \in Events(log, "exit") :
                    LET i == CHOOSE i \in Events(log, "call") : log[i].fr = log[j].fr
                        final == log[j].final
                        assigns(n) == {k \in i..j : /\ log[k].e = "assign"
                                                    /\ log[k].fr = log[j].fr
                                                    /\ log[k].var = n}
                    IN  \A n \in DOMAIN final :
                           IF assigns(n) # {} THEN Same(final[n], log[MaxOf(assigns(n))].val)
                           ELSE IF n \in DOMAIN log[i].entry THEN Same(final[n], log[i].entry[n])
                           ELSE Same(final[n], None)
              /\ closure' = closure
              /\ (/\ last'.op = "MethodCall"
                  /\ last'.node.method = "peek"
                  /\ Events(log, "call") # {})
                 => /\ last'.sig = "error"
                    /\ Same(last'.val, RuntimeError("Variable 'x not found"))
      ]_vars

\* x.rec(2) has returned 2 after three nested invocations, each of which
\* assigned its own y.
C8_Witness ==
    /\ Ran("MethodCall")
    /\ last.node.method = "rec"
    /\ last.sig = "ok"
    /\ Same(last.val, Number(2))
    /\ Cardinality(Events(last.log, "call")) = 3
    /\ "y" \in DOMAIN closure

\* The printed form of a value.
FormOf(v, hp) ==
    CASE v.kind = "None" -> <<"N", "o", "n", "e">>
      [] v.kind = "Number" -> <<(<<"0", "1", "2", "3", "4", "5", "6", "7", "8", "9">>)[v.v + 1]>>
      [] v.kind = "String" -> v.v
      [] v.kind = "Bool" -> IF v.v THEN <<"T", "r", "u", "e">> ELSE <<"F", "a", "l", "s", "e">>
      [] v.kind = "Class" -> <<"C", "l", "a", "s", "s", " ", classes[v.v].name>>
      [] v.kind = "ClassInstance" ->
            IF hp[v.v].cls = 2 THEN <<"b">>                   \* B's __str__
            ELSE <<"@", (<<"1", "2", "3", "4", "5", "6", "7", "8", "9">>)[v.v]>>

\* The forms of the values joined by single spaces.
RECURSIVE Joined(_, _)
Joined(vals, hp) ==
    IF Len(vals) = 0 THEN <<>>
    ELSE IF Len(vals) = 1 THEN FormOf(vals[1].val, hp)
    ELSE FormOf(vals[1].val, hp) \o <<" ">> \o Joined(Tail(vals), hp)

RECURSIVE Texts(_)
Texts(ws) == IF ws = <<>> THEN <<>> ELSE Head(ws).text \o Texts(Tail(ws))

\* C9: a Print that completes has evaluated its arguments in order, has
\* written to the context's stream the forms of their values joined by single
\* spaces and then a newline (None for an empty value), and returns None; the
\* stream holds nothing else new, but for what the arguments' own evaluation
\* printed.
C9_PrintWritesFormsJoinedBySpaces ==
    [][(last'.op = "Print" /\ last'.sig = "ok") =>
          LET log == last'.log
              IsVal(ev) == ev.e = "printarg" /\ ev.fr = 0
              IsOwn(ev) == ev.e = "write" /\ ev.fr = 0 /\ ev.ctx = "real"
              IsReal(ev) == ev.e = "write" /\ ev.ctx = "real"
              vals == SelectSeq(log, IsVal)
          IN  /\ Len(vals) = Len(last'.node.args)
              /\ \A k \in 1..Len(vals) : vals[k].k = k
              /\ Texts(SelectSeq(log, IsOwn)) = Joined(vals, heap') \o <<"\n">>
              /\ out' = out \o Texts(SelectSeq(log, IsReal))
              /\ (\A k \in Events(log, "write") : log[k].fr = 0) =>
                    out' = out \o Joined(vals, heap') \o <<"\n">>
              /\ Same(last'.val, None)
      ]_vars

\* print y, None  with y = 1 has written  1 None  and a newline.
C9_Witness ==
    /\ Ran("Print")
    /\ last.sig = "ok"
    /\ Len(last.node.args) = 2
    /\ out = <<"1", " ", "N", "o", "n", "e", "\n">>

\* The walk along a dotted path: the value of segment i - 1 is v; each further
\* segment is selected from the Fields of the instance reached so far.
RECURSIVE WalkFrom(_, _, _, _)
WalkFrom(ids, i, v, hp) ==
    IF i > Len(ids) THEN v
    ELSE IF v.kind = "ClassInstance" /\ ids[i] \in DOMAIN hp[v.v].fields
    THEN WalkFrom(ids, i + 1, hp[v.v].fields[ids[i]], hp)
    ELSE [kind |-> "undefined"]

FieldWalk(ids, cl, hp) ==
    IF ids[1] \in DOMAIN cl THEN WalkFrom(ids, 2, cl[ids[1]], hp)
    ELSE [kind |-> "undefined"]

\* C17: a VariableValue with a dotted path n0.n1. ... .nk yields the field nk
\* of the instance reached by walking the fields n1 .. n(k-1) from the value
\* of n0 in the closure, for paths of two segments and of three or more.
C17_DottedPathWalksFields ==
    [][(/\ last'.op = "VariableValue"
        /\ Len(last'.node.dotted_ids) >= 2
        /\ FieldWalk(last'.node.dotted_ids, closure, heap).kind # "undefined")
       => /\ last'.sig = "ok"
          /\ Same(last'.val, FieldWalk(last'.node.dotted_ids, closure, heap))
      ]_vars

\* x.f has been read where x.f is an instance itself (x = A(A(2))).
C17_Witness ==
    /\ Ran("VariableValue")
    /\ last.node.dotted_ids = <<"x", "f">>
    /\ last.sig = "ok"
    /\ last.val.kind = "ClassInstance"
    /\ "f" \in DOMAIN heap[last.val.v].fields

\* C19: MethodCall evaluates the receiver first.  A receiver that is not a
\* ClassInstance, or an instance without a method of that name and argument
\* count, makes it raise a runtime error with no argument evaluated and no
\* effect; otherwise the arguments are evaluated left to right, once each,
\* and the result is that of the method invoked on the receiver with them.
C19_MethodCallChecksReceiverFirst ==
    [][(/\ last'.op = "MethodCall"
        /\ last'.node.object.dotted_ids[1] \in DOMAIN closure)
       => LET recv == closure[last'.node.object.dotted_ids[1]]
              method == last'.node.method
              n == Len(last'.node.args)
              log == last'.log
              args0 == {k \in Events(log, "arg") : log[k].fr = 0}
              calls0 == {k \in Events(log, "call") : log[k].from = 0}
          IN  IF \/ recv.kind # "ClassInstance"
                 \/ ~HasMethod(classes, heap[recv.v].cls, method, n)
              THEN /\ last'.sig = "error"
                   /\ Same(last'.val, RuntimeError("Method: " \o method \o " call error"))
                   /\ Events(log, "arg") = {}
                   /\ Events(log, "call") = {}
                   /\ heap' = heap
                   /\ out' = out
                   /\ closure' = closure
              ELSE /\ \A k1, k2 \in args0 : k1 < k2 => log[k1].k < log[k2].k
                   /\ {log[k].k : k \in args0} = 1..Cardinality(args0)
                   /\ IF Cardinality(args0) < n
                      THEN last'.sig # "ok" /\ calls0 = {}
                      ELSE /\ Cardinality(calls0) = 1
                           /\ \A c \in calls0 :
                                 /\ \A k \in args0 : k < c /\ Same(log[k].val, log[c].args[log[k].k])
                                 /\ log[c].recv = recv.v
                                 /\ log[c].method = method
                                 /\ Len(log[c].args) = n
                                 /\ \E x \in Events(log, "exit") :
                                       /\ log[x].fr = log[c].fr
                                       /\ last'.sig = log[x].sig
                                       /\ Same(last'.val, log[x].val)
      ]_vars

\* x.get(1) on an instance of A, whose get takes no parameter, has raised.
C19_Witness ==
    /\ Ran("MethodCall")
    /\ last.node.method = "get"
    /\ Len(last.node.args) = 1
    /\ last.node.object.dotted_ids[1] \in DOMAIN closure
    /\ closure[last.node.object.dotted_ids[1]].kind = "ClassInstance"
    /\ heap[closure[last.node.object.dotted_ids[1]].v].cls = 1
    /\ last.sig = "error"
    /\ last.log = <<[e |-> "exec", fr |-> 0, t |-> "MethodCall"],
                    [e |-> "exec", fr |-> 0, t |-> "VariableValue"]>>

\* The number of arguments the invocations cs took.
RECURSIVE ArgsTaken(_, _)
ArgsTaken(log, cs) ==
    IF cs = {} THEN 0
    ELSE LET c == CHOOSE c \in cs : TRUE
         IN  Len(log[c].args) + ArgsTaken(log, cs \ {c})

MinOf(S) == CHOOSE k \in S : \A j \in S : k <= j

\* C20: a NewInstance yields an instance that none of the instances created
\* before is, with Fields of its own: the instances that existed keep their
\* Fields, and a field assigned on one instance changes no other instance.
\* When the class resolves __init__ for the number of arguments, the
\* arguments are evaluated left to right, once each, and __init__ runs exactly
\* once, self being the new instance, before the instance is handed back.
C20_NewInstanceIsFresh ==
    [][/\ last'.op = "NewInstance" =>
          LET log == last'.log
              node == last'.node.rv
              n == Len(node.args)
              news == Events(log, "new")
              inst == log[MinOf(news)].inst
              inits == {c \in Events(log, "call") :
                           log[c].recv = inst /\ log[c].method = INIT_METHOD}
              args0 == {k \in Events(log, "arg") : log[k].fr = 0}
              calls0 == {c \in Events(log, "call") : log[c].from = 0}
              TopArg(c, k) == MaxOf({a \in args0 : a < c /\ log[a].k = k})
          IN  /\ news # {}
              /\ \A k \in news : log[k].inst \notin 1..Len(heap)
              /\ \A k1, k2 \in news : k1 # k2 => log[k1].inst # log[k2].inst
              /\ Len(heap') >= Len(heap) + Cardinality(news)
              /\ SubSeq(heap', 1, Len(heap)) = heap
              /\ heap'[inst].cls = node.cls
              /\ Cardinality(inits) <= 1
              /\ ~HasMethod(classes, node.cls, INIT_METHOD, n) =>
                    /\ inits = {}
                    /\ args0 = {}
                    /\ last'.sig = "ok"
                    /\ Same(last'.val, Instance(inst))
                    /\ DOMAIN heap'[inst].fields = {}
              /\ last'.sig = "ok" =>
                    /\ Same(closure'[last'.node.var], Instance(inst))
                    /\ Cardinality(args0) = ArgsTaken(log, calls0)
              /\ (last'.sig = "ok" /\ HasMethod(classes, node.cls, INIT_METHOD, n)) =>
                    /\ Cardinality(inits) = 1
                    /\ \A c \in inits :
                          /\ log[c].from = 0
                          /\ c = MaxOf(calls0)
                          /\ Same(log[c].entry["self"], Instance(inst))
                          /\ Len(log[c].args) = n
                          /\ \A k \in 1..n : Same(log[TopArg(c, k)].val, log[c].args[k])
                          /\ \A k \in 1..(n - 1) : TopArg(c, k) < TopArg(c, k + 1)
                          /\ \E x \in Events(log, "exit") : \E a \in Events(log, "assign") :
                                /\ log[x].fr = log[c].fr
                                /\ x < a
                                /\ log[a].fr = 0
                                /\ log[a].var = last'.node.var
                                /\ Same(log[a].val, Instance(inst))
       /\ (/\ last'.op = "FieldAssignment"
           /\ FieldWalk(last'.node.object.dotted_ids, closure, heap).kind = "ClassInstance")
          => LET o == FieldWalk(last'.node.object.dotted_ids, closure, heap).v
             IN  /\ Len(heap') = Len(heap)
                 /\ \A i \in 1..Len(heap) : i # o => heap'[i] = heap[i]
                 /\ last'.sig = "ok" =>
                       Same(heap'[o].fields[last'.node.field_name], last'.val)
      ]_vars

\* x = A(2); y = A(2); x.f = 1: two instances of A, f being 1 in one and 2 in
\* the other.
C20_Witness ==
    /\ Ran("FieldAssignment")
    /\ last.sig = "ok"
    /\ Len(heap) = 2
    /\ heap[1].cls = 1
    /\ heap[2].cls = 1
    /\ "f" \in DOMAIN heap[1].fields
    /\ "f" \in DOMAIN heap[2].fields
    /\ {"x", "y"} \subseteq DOMAIN closure
    /\ Same(heap[1].fields["f"], Number(1))
    /\ Same(heap[2].fields["f"], Number(2))
    /\ Same(closure["x"], Instance(1))
    /\ Same(closure["y"], Instance(2))

\* Two closures (or Fields maps) hold the same names with the same values.
SameMap(a, b) ==
    /\ DOMAIN a = DOMAIN b
    /\ \A n \in DOMAIN a : Same(a[n], b[n])

SameHeap(h1, h2) ==
    /\ Len(h1) = Len(h2)
    /\ \A i \in 1..Len(h1) : h1[i].cls = h2[i].cls /\ SameMap(h1[i].fields, h2[i].fields)

\* C24: evaluating a VariableValue adds or changes no binding of the closure
\* and no entry of any instance's Fields, whatever the length of the path;
\* when a name or a field of the path does not exist it raises a runtime
\* error.
C24_VariableValueReadsOnly ==
    [][last'.op = "VariableValue" =>
          /\ SameMap(closure', closure)
          /\ SameHeap(heap', heap)
          /\ out' = out
          /\ FieldWalk(last'.node.dotted_ids, closure, heap).kind = "undefined"
                => last'.sig = "error"
      ]_vars

\* The name x, bound nowhere, has been evaluated: a runtime error, and the
\* closure is as empty as before.
C24_Witness ==
    /\ Ran("VariableValue")
    /\ last.node.dotted_ids = <<"x">>
    /\ last.sig = "error"
    /\ Same(last.val, RuntimeError("Variable 'x not found"))
    /\ DOMAIN closure = {}

(***************************************************************************)
(*                 PROPERTIES OF THE OPERATORS' PROGRAMS                   *)
(***************************************************************************)

\* A value counts as true: True, a Number other than 0, a String not empty.
Truthy(o) ==
    \/ o.kind = "Bool" /\ o.v
    \/ o.kind = "Number" /\ o.v # 0
    \/ o.kind = "String" /\ o.v # <<>>

IsTruncatedQuotient(q, a, b) ==
    /\ ~(q = IntMin /\ b = 0 - 1)
    /\ LET r == a - q * b
       IN  /\ (IF r < 0 THEN 0 - r ELSE r) < (IF b < 0 THEN 0 - b ELSE b)
           /\ r = 0 \/ (r < 0) = (a < 0)

\* C14: Div of two Numbers yields the quotient truncated toward zero when the
\* divisor is not 0 and raises "Division by zero" when it is; with an operand
\* that is not a Number it raises another runtime error, a divisor 0 included.
C14_DivTruncatesOrRaises ==
    last.op = "Div" =>
        LET a == last.node.lhs.v
            b == last.node.rhs.v
        IN  IF a.kind # "Number" \/ b.kind # "Number"
            THEN /\ last.sig = "error"
                 /\ last.val.what # "Division by zero"
            ELSE IF b.v = 0
            THEN /\ last.sig = "error"
                 /\ Same(last.val, RuntimeError("Division by zero"))
            ELSE /\ last.sig = "ok"
                 /\ last.val.kind = "Number"
                 /\ IsTruncatedQuotient(last.val.v, a.v, b.v)

\* -7 / 2 has yielded -3.
C14_Witness ==
    /\ Ran("Div")
    /\ last.node.lhs.v.kind = "Number"
    /\ last.node.lhs.v.v = 0 - 7
    /\ last.node.rhs.v.kind = "Number"
    /\ last.node.rhs.v.v = 2
    /\ last.sig = "ok"
    /\ Same(last.val, Number(0 - 3))

\* C15: a runtime error raised while a method body executes leaves every
\* invocation on the way with that error and reaches the top level: after
\* the innermost invocation has failed nothing executes any more, no enclosing
\* invocation yields a value, and the statements after the failing one have had
\* no effect; a Return in the same bodies is stopped at its MethodBody.
C15_ErrorsPropagateToTop ==
    [][last'.op \in {"MethodCall", "NewInstance", "Logic"} =>
          LET log == last'.log
              failed == {j \in Events(log, "exit") : log[j].sig = "error"}
              o == closure[last'.node.object.dotted_ids[1]].v
          IN  /\ \A j \in failed :
                    /\ \A k \in (j + 1)..Len(log) :
                          /\ log[k].e = "exit"
                          /\ log[k].sig = "error"
                          /\ Same(log[k].val, log[j].val)
                    /\ last'.sig = "error"
                    /\ Same(last'.val, log[j].val)
                    /\ status' = "error"
              /\ \A i \in Events(log, "call") :
                    \E k \in Events(log, "exit") : k > i /\ log[k].fr = log[i].fr
              \* x.outer(d):  self.h = 1; y = self.fail(d); self.h = 2; return 7
              \* fail(d):     self.g = 1; if True: (t = 6 / d; self.g = 2); self.g = 3; return t
              /\ (/\ last'.op = "MethodCall"
                  /\ last'.node.method = "outer"
                  /\ Events(log, "call") # {})
                 => IF last'.node.args[1].v.v = 0
                    THEN /\ last'.sig = "error"
                         /\ Same(last'.val, RuntimeError("Division by zero"))
                         /\ Cardinality(failed) = 2
                         /\ Same(heap'[o].fields["g"], Number(1))
                         /\ Same(heap'[o].fields["h"], Number(1))
                         /\ closure' = closure
                         /\ out' = out
                    ELSE /\ last'.sig = "ok"
                         /\ Same(last'.val, Number(7))
                         /\ Same(heap'[o].fields["g"], Number(3))
                         /\ Same(heap'[o].fields["h"], Number(2))
      ]_vars

\* x.outer(0) has failed with the division by zero of fail, two invocations
\* deep.
C15_Witness ==
    /\ Ran("MethodCall")
    /\ last.node.method = "outer"
    /\ last.sig = "error"
    /\ status = "error"
    /\ Cardinality(Events(last.log, "call")) = 2
    /\ Same(last.val, RuntimeError("Division by zero"))

\* C18: after a ClassDefinition has executed, the class's name is bound in
\* the closure to that definition's Class, whatever the closure held before
\* (the name bound to another value included) and each time the same node is
\* executed; the statement yields None.
C18_ClassDefinitionBindsTheName ==
    [][last'.op = "ClassDefinition" =>
          LET name == classes[last'.node.cls].name
          IN  /\ last'.sig = "ok"
              /\ Same(last'.val, None)
              /\ name \in DOMAIN closure'
              /\ Same(closure'[name], ClassObj(last'.node.cls))
      ]_vars

\* class A has been defined while the closure held other names only.
C18_Witness ==
    /\ Ran("ClassDefinition")
    /\ last.node.cls = 1
    /\ last.sig = "ok"
    /\ DOMAIN closure = {"A", "x"}
    /\ Same(closure["A"], ClassObj(1))

\* C23: while a method body executes, and before the body assigns to self,
\* the invocation's closure binds self to the receiver of the call, for every
\* method and every list of formal parameters, one that names a parameter self
\* included: self is the receiver at entry, it still is at the end of a body
\* that did not assign it, and a body that returns self returns the receiver.
C23_SelfIsTheReceiver ==
    [][last'.op \in {"MethodCall", "NewInstance", "Logic"} =>
          LET log == last'.log
          IN  /\ \A c \in Events(log, "call") :
                    /\ "self" \in DOMAIN log[c].entry
                    /\ Same(log[c].entry["self"], Instance(log[c].recv))
                    /\ \A x \in Events(log, "exit") :
                          (/\ log[x].fr = log[c].fr
                           /\ log[x].sig = "ok"
                           /\ \A a \in Events(log, "assign") :
                                 ~(log[a].fr = log[c].fr /\ log[a].var = "self"))
                          => Same(log[x].final["self"], Instance(log[c].recv))
              /\ (/\ last'.op = "MethodCall"
                  /\ last'.node.method \in {"me", "own"}
                  /\ Events(log, "call") # {})
                 => /\ last'.sig = "ok"
                    /\ Same(last'.val, closure[last'.node.object.dotted_ids[1]])
      ]_vars

\* x.own(1) has returned x: own read self before it assigned 1 to it.
C23_Witness ==
    /\ Ran("MethodCall")
    /\ last.node.method = "own"
    /\ last.sig = "ok"
    /\ last.val.kind = "ClassInstance"
    /\ Same(last.val, closure[last.node.object.dotted_ids[1]])
    /\ \E a \in Events(last.log, "assign") :
          last.log[a].var = "self" /\ Same(last.log[a].val, Number(1))

\* C25: a NewInstance with n arguments whose class does not resolve __init__
\* to a method of exactly n parameters (none on the chain, or one of another
\* arity) evaluates no argument, runs no method body, raises no error and
\* yields a new instance whose Fields are empty; nothing else changes.
C25_NewInstanceWithoutInit ==
    [][last'.op = "NewInstance" =>
          LET node == last'.node.rv
              n == Len(node.args)
              log == last'.log
              c == Nearest(classes, node.cls, INIT_METHOD)
              fits == /\ c # 0
                      /\ \E k \in 1..Len(classes[c].methods) :
                            /\ classes[c].methods[k].name = INIT_METHOD
                            /\ \A j \in 1..(k - 1) : classes[c].methods[j].name # INIT_METHOD
                            /\ Len(classes[c].methods[k].formal_params) = n
              i == Len(heap) + 1
          IN  ~fits =>
                 /\ last'.sig = "ok"
                 /\ Same(last'.val, Instance(i))
                 /\ Events(log, "arg") = {}
                 /\ Events(log, "call") = {}
                 /\ Cardinality(Events(log, "new")) = 1
                 /\ \A k \in Events(log, "exec") : log[k].t \in {"Assignment", "NewInstance"}
                 /\ Len(heap') = i
                 /\ heap'[i].cls = node.cls
                 /\ DOMAIN heap'[i].fields = {}
                 /\ SameHeap(SubSeq(heap', 1, Len(heap)), heap)
                 /\ out' = out
                 /\ SameMap(closure', Bind(closure, last'.node.var, Instance(i)))
      ]_vars

\* A(1, 2), where __init__ of A takes one parameter, has yielded an instance
\* without fields.
C25_Witness ==
    /\ Ran("NewInstance")
    /\ last.node.rv.cls = 1
    /\ Len(last.node.rv.args) = 2
    /\ last.sig = "ok"
    /\ last.val.kind = "ClassInstance"
    /\ last.val.v = Len(heap)
    /\ DOMAIN heap[Len(heap)].fields = {}

====
